---------------------------- MODULE Spec2Model ----------------------------
(***************************************************************************)
(* Interview orchestration of MrFrenchRules (src/main.py) over the durable *)
(* session store (src/supabase_client.py).                                 *)
(*                                                                         *)
(* Every request handler is cut where the event loop can suspend it.  The  *)
(* coroutines of SupabaseClient are psycopg2 calls with no await inside,   *)
(* so awaiting them never yields; a handler yields only at the two calls   *)
(* of the AsyncOpenAI client (main.py:899 and main.py:1090).  One action   *)
(* is the stretch of a handler between two such points.  Each store call   *)
(* may fail; SupabaseClient swallows the failure and answers False / None, *)
(* which the handlers ignore.                                              *)
(***************************************************************************)
EXTENDS Integers, Sequences, FiniteSets, TLC

(***************************************************************************)
(* Bounds of the model.                                                    *)
(***************************************************************************)
MaxSessions == 2      \* session ids 1..MaxSessions
MaxReqs     == 2      \* requests in flight at the same time
MaxRequests == 2      \* requests the environment issues in one run
MaxFaults   == 1      \* stretches of a handler in which store calls fail
MaxLines    == 2      \* lines of an extraction output

(***************************************************************************)
(* Program constants.                                                      *)
(***************************************************************************)
QuestionCeiling == 23     \* main.py:921  current_question_index >= 23
MinConversationLen == 100 \* main.py:975  len(conversation_text) < 100

Sessions == 1..MaxSessions
Reqs     == 1..MaxReqs

(***************************************************************************)
(* Turns.  A turn is {"role", "content"}; the content is written           *)
(* <<kind, text>> so that fixed texts of main.py are named by their kind.  *)
(***************************************************************************)
Turn(role, kind, text) == [role |-> role, content |-> <<kind, text>>]

UserTurn(m)      == Turn("user", "message", m)
OpeningTurn      == Turn("assistant", "opening", "Hello")
CannedTurn(l)    == Turn("assistant", "canned", l)
DocReplyTurn(d)  == Turn("assistant", "doc_reply", d)
GeneratedTurn(t) == Turn("assistant", "generated", t)
FinalNoteTurn    == Turn("assistant", "final_note", "Thank you")

(***************************************************************************)
(* Expert messages the environment sends, with the phrase lists of         *)
(* is_smalltalk_or_project and the doc_query_patterns each one matches.    *)
(***************************************************************************)
Messages == { "hi how are you", "hi can you see my document", "we use reward charts" }

MatchedPhrases(m) ==
  CASE m = "hi how are you"             -> {"greetings", "smalltalk"}
    [] m = "hi can you see my document" -> {"greetings", "doc_query_patterns"}
    [] m = "who is timmy"               -> {"who_is_timmy"}
    [] m = "how are you"                -> {"smalltalk"}
    [] m = "who are you"                -> {"who_are_you"}
    [] m = "what is mr french"          -> {"who_is_mrfrench"}
    [] m = "what is this interview about" -> {"about_interview"}
    [] OTHER                            -> {}

is_doc_query(m) == "doc_query_patterns" \in MatchedPhrases(m)

is_smalltalk_or_project(m) ==
  IF m = "" THEN "none"
  ELSE IF "greetings" \in MatchedPhrases(m) THEN "greeting"
  ELSE IF "smalltalk" \in MatchedPhrases(m) THEN "smalltalk"
  ELSE IF "who_are_you" \in MatchedPhrases(m) THEN "who_are_you"
  ELSE IF "who_is_mrfrench" \in MatchedPhrases(m) THEN "who_is_mrfrench"
  ELSE IF "who_is_timmy" \in MatchedPhrases(m) THEN "who_is_timmy"
  ELSE IF "about_interview" \in MatchedPhrases(m) THEN "about_interview"
  ELSE "none"

SmallTalkLabels == { "greeting", "smalltalk", "who_are_you",
                     "who_is_mrfrench", "who_is_timmy", "about_interview" }

(***************************************************************************)
(* Replies of the completion capability for a turn, and what               *)
(* sanitize_question followed by clean_response makes of them.             *)
(***************************************************************************)
RawReplies == { "1. What outcomes do you aim for?",
                "\"To conclude, here is a summary.\"" }

sanitize_question(t) ==
  CASE t = "1. What outcomes do you aim for?" -> "What outcomes do you aim for?"
    [] t = "- What routines work best?"       -> "What routines work best?"
    [] OTHER                                  -> t

clean_response(t) ==
  CASE t = "\"To conclude, here is a summary.\"" -> "To conclude, here is a summary.\""
    [] OTHER                                     -> t

HasConclusionKeyword(t) ==
  t \in { "To conclude, here is a summary.\"", "\"To conclude, here is a summary.\"" }


(***************************************************************************)
(* Length of the text submit_interview builds from a transcript:           *)
(* "\n".join(f"{role.upper()}: {content}").                                *)
(***************************************************************************)
ContentLen(c) ==
  CASE c[1] = "opening"    -> 325
    [] c[1] = "final_note" -> 151
    [] c[1] = "canned"     ->
         ( CASE c[2] = "greeting"        -> 403
             [] c[2] = "smalltalk"       -> 428
             [] c[2] = "who_are_you"     -> 419
             [] c[2] = "who_is_mrfrench" -> 556
             [] c[2] = "who_is_timmy"    -> 388
             [] OTHER                    -> 362 )
    [] c[1] = "doc_reply"  ->
         ( CASE c[2] = "no_documents" -> 193
             [] c[2] = "found"        -> 138
             [] c[2] = "trouble_content" -> 151
             [] OTHER                 -> 148 )
    [] c[1] = "generated"  ->
         ( CASE c[2] = "What outcomes do you aim for?" -> 29
             [] OTHER                                  -> 32 )
    [] OTHER ->
         ( CASE c[2] = "hi how are you"             -> 14
             [] c[2] = "hi can you see my document" -> 26
             [] c[2] = "who is timmy"               -> 12
             [] OTHER                               -> 20 )

RoleLen(role) == IF role = "assistant" THEN 9 ELSE 4

RECURSIVE SumTurnLen(_)
SumTurnLen(h) ==
  IF h = << >> THEN 0
  ELSE RoleLen(Head(h).role) + 2 + ContentLen(Head(h).content) + SumTurnLen(Tail(h))

ConversationTextLen(h) ==
  IF h = << >> THEN 0 ELSE SumTurnLen(h) + (Len(h) - 1)

(***************************************************************************)
(* Outputs of the completion capability for rule extraction, as the lines  *)
(* of response.choices[0].message.content, and the filter of               *)
(* submit_interview.  The string operations are tabulated from Python for  *)
(* the lines below and what they are trimmed to.                            *)
(***************************************************************************)
RawLines ==
  { "NONE",
    "none",
    "N/A",
    "No rules",
    "No behavioral rules",
    "",
    "   ",
    "Be kind.",
    "Let the child rest.",
    "Keep the child calm.  ",
    "Always speak calmly and slowly.",
    "  Mr. French should keep the bedtime routine short.",
    "Mr. French should praise the child's effort.",
    "Jamie should tidy the room daily.",
    "PARENTS SET THE BEDTIME ROUTINE." }

\* The outputs of up to MaxLines lines.
RawOutputs == UNION { [ 1..n -> RawLines ] : n \in 0..MaxLines }

\* The outputs the handlers are run with.
ExtractionOutputs ==
  { << "NONE" >>,
    << "N/A", "  Mr. French should keep the bedtime routine short." >> }

\* str.lstrip()
LStrip(l) ==
  CASE l = "   " -> ""
    [] l = "  Mr. French should keep the bedtime routine short." -> "Mr. French should keep the bedtime routine short."
    [] OTHER -> l

\* str.rstrip()
RStrip(l) ==
  CASE l = "   " -> ""
    [] l = "Keep the child calm.  " -> "Keep the child calm."
    [] OTHER -> l

\* str.strip()
StripLine(l) == RStrip(LStrip(l))

\* len(str)
LineLen(l) ==
  CASE l = "NONE" -> 4
    [] l = "none" -> 4
    [] l = "N/A" -> 3
    [] l = "No rules" -> 8
    [] l = "No behavioral rules" -> 19
    [] l = "" -> 0
    [] l = "   " -> 3
    [] l = "Be kind." -> 8
    [] l = "Let the child rest." -> 19
    [] l = "Keep the child calm.  " -> 22
    [] l = "Keep the child calm." -> 20
    [] l = "Always speak calmly and slowly." -> 31
    [] l = "  Mr. French should keep the bedtime routine short." -> 51
    [] l = "Mr. French should keep the bedtime routine short." -> 49
    [] l = "Mr. French should praise the child's effort." -> 44
    [] l = "Jamie should tidy the room daily." -> 33
    [] l = "PARENTS SET THE BEDTIME ROUTINE." -> 32
    [] OTHER -> 0

\* str.upper()
Upper(l) ==
  CASE l = "none" -> "NONE"
    [] l = "No rules" -> "NO RULES"
    [] l = "No behavioral rules" -> "NO BEHAVIORAL RULES"
    [] l = "Be kind." -> "BE KIND."
    [] l = "Let the child rest." -> "LET THE CHILD REST."
    [] l = "Keep the child calm." -> "KEEP THE CHILD CALM."
    [] l = "Always speak calmly and slowly." -> "ALWAYS SPEAK CALMLY AND SLOWLY."
    [] l = "Mr. French should keep the bedtime routine short." -> "MR. FRENCH SHOULD KEEP THE BEDTIME ROUTINE SHORT."
    [] l = "Mr. French should praise the child's effort." -> "MR. FRENCH SHOULD PRAISE THE CHILD'S EFFORT."
    [] l = "Jamie should tidy the room daily." -> "JAMIE SHOULD TIDY THE ROOM DAILY."
    [] OTHER -> l

\* The terms of either keyword list found in str.lower().
TermsIn(l) ==
  CASE l = "No behavioral rules" -> { "behavior" }
    [] l = "Let the child rest." -> { "child" }
    [] l = "Keep the child calm." -> { "child" }
    [] l = "Mr. French should keep the bedtime routine short." -> { "routine", "mr. french" }
    [] l = "Mr. French should praise the child's effort." -> { "child", "mr. french" }
    [] l = "Jamie should tidy the room daily." -> { "jamie" }
    [] l = "PARENTS SET THE BEDTIME ROUTINE." -> { "parent", "routine" }
    [] OTHER -> { }

\* main.py:1113
IsSentinelLine(l) == Upper(l) \in { "NONE", "NO RULES", "NO BEHAVIORAL RULES", "N/A" }

\* main.py:1119 and interview_ai.py:321
MainTerms == { "child", "parent", "family", "behavior", "task", "routine", "mr. french" }
JamieTerms == { "child", "parent", "family", "behavior", "task", "routine", "jamie" }

HasDomainKeyword(l) == TermsIn(l) \cap MainTerms # { }

\* The texts a rule row can hold: the lines, trimmed.
RuleTexts == { StripLine(l) : l \in RawLines } \ { "" }

RECURSIVE SumLineLen(_)
SumLineLen(ls) ==
  IF ls = << >> THEN 0 ELSE LineLen(Head(ls)) + SumLineLen(Tail(ls))

\* content.strip() on the lines of content: blank lines at either end go, the
\* first line loses its leading and the last its trailing blanks; << >> is the
\* empty text.
RECURSIVE DropBlankHead(_)
DropBlankHead(ls) ==
  IF ls = << >> THEN << >>
  ELSE IF StripLine(Head(ls)) = "" THEN DropBlankHead(Tail(ls)) ELSE ls

RECURSIVE DropBlankTail(_)
DropBlankTail(ls) ==
  IF ls = << >> THEN << >>
  ELSE IF StripLine(ls[Len(ls)]) = "" THEN DropBlankTail(SubSeq(ls, 1, Len(ls) - 1))
  ELSE ls

StripText(ls) ==
  LET kept == DropBlankTail(DropBlankHead(ls)) IN
  [ i \in DOMAIN kept |->
      LET left == IF i = 1 THEN LStrip(kept[i]) ELSE kept[i]
      IN  IF i = Len(kept) THEN RStrip(left) ELSE left ]

\* len(tasks_text): the lines joined by "\n".
TasksTextLen(ls) ==
  IF ls = << >> THEN 0 ELSE SumLineLen(ls) + (Len(ls) - 1)

\* main.py:1109: [task.strip() for task in tasks_text.split('\n') if task.strip()]
RECURSIVE raw_tasks(_)
raw_tasks(ls) ==
  IF ls = << >> THEN << >>
  ELSE IF StripLine(Head(ls)) = "" THEN raw_tasks(Tail(ls))
  ELSE << StripLine(Head(ls)) >> \o raw_tasks(Tail(ls))

\* A variant of filter_task_statements that returns the kept tasks last first.
RECURSIVE filter_task_statements_reversed(_, _)
filter_task_statements_reversed(tasks, terms) ==
  IF tasks = << >> THEN << >>
  ELSE LET task == Head(tasks)
           rest == filter_task_statements_reversed(Tail(tasks), terms)
       IN IF IsSentinelLine(task) \/ LineLen(task) < 20 \/ TermsIn(task) \cap terms = { }
          THEN rest ELSE rest \o << task >>

\* main.py:1112-1122 and interview_ai.py:314-325 (_filter_task_statements), terms
\* being the keyword list of either.
RECURSIVE filter_task_statements(_, _)
filter_task_statements(tasks, terms) ==
  IF tasks = << >> THEN << >>
  ELSE LET task == Head(tasks)
           rest == filter_task_statements(Tail(tasks), terms)
       IN IF IsSentinelLine(task) \/ LineLen(task) < 20 \/ TermsIn(task) \cap terms = { }
          THEN rest ELSE << task >> \o rest

FilterTasks(ls) == filter_task_statements(raw_tasks(ls), MainTerms)

\* A variant of extracted_rules that returns every line that is not blank.
extracted_rules_as_lines(ls, terms) == raw_tasks(ls)

\* main.py:1101-1122 and interview_ai.py:344-348: the rules extracted from the
\* output whose lines are ls, with the keyword list terms.
extracted_rules(ls, terms) ==
  LET tasks_text == StripText(ls) IN
  IF ( Len(tasks_text) = 1 /\ Upper(tasks_text[1]) = "NONE" )
     \/ tasks_text = << >> \/ TasksTextLen(tasks_text) < 10
  THEN << >>
  ELSE filter_task_statements(raw_tasks(tasks_text), terms)

task_statements(ls) == extracted_rules(ls, MainTerms)

\* interview_ai.py:328-348
extract_rules_from_conversation(ls) == extracted_rules(ls, JamieTerms)

(***************************************************************************)
(* State.                                                                  *)
(***************************************************************************)
VARIABLES
  db,               \* interview_sessions: session id -> row
  rules,            \* interview_rules: session id -> rule text -> number of rows
  session_counter,  \* main.py global
  pc,               \* each request's position in its handler
  loc,              \* each request's local variables
  last,             \* the request that returned last: what it was and answered
  chunks,           \* the Chroma collection: the chunks stored, one for an id
  upload,           \* the /upload-doc request that returned last
  issued,           \* requests issued so far
  faults            \* stretches in which calls on a store have failed so far

vars == << db, rules, session_counter, pc, loc, last, chunks, upload, issued, faults >>

NoRow == [ exists |-> FALSE, conversation_history |-> << >>,
           current_question_index |-> 0, is_complete |-> FALSE ]

NoResp == [ status |-> "none", message |-> << "none", "" >>, question_number |-> 0,
            is_complete |-> FALSE, auto_submitted |-> FALSE ]

\* kind: the handler; route: the branch /chat took; conversation_history and
\* current_question_index: what /chat computed to store; saved: every
\* update_session of the handler answered True; called: the completion
\* capability was called;
\* in_chat: submit_interview runs inside /chat; submitted: submit_interview's own
\* session_data; tasks_text: the lines of the extraction output; task_statements:
\* the rules extracted from it; lookup: what the Chroma calls of the handler
\* did; doc_context: the sections of documents put in the prompt or the reply;
\* document_context: those passed to the rule extraction; limit: the number
\* of chunks a search asked for.
NoLoc == [ kind |-> "none", sid |-> 0, msg |-> "", session_data |-> NoRow,
           conversation_history |-> << >>, current_question_index |-> 0,
           ai_message |-> << "none", "" >>, route |-> "none",
           saved |-> FALSE, called |-> FALSE, in_chat |-> FALSE,
           submitted |-> NoRow, tasks_text |-> << >>, task_statements |-> << >>,
           lookup |-> "none", doc_context |-> << >>, document_context |-> << >>,
           limit |-> 0, text |-> << >>, text_chunks |-> << >>,
           rules_collection |-> [ connected |-> FALSE, docs |-> { } ],
           attempt |-> 0, outcomes |-> << >>, slept |-> 0, all_rules |-> << >>,
           resp |-> NoResp ]

(***************************************************************************)
(* SupabaseClient (src/supabase_client.py).                                *)
(***************************************************************************)
\* INSERT ... ON CONFLICT (session_id) DO UPDATE SET expert_name, ... : a new row
\* gets the column defaults, an existing row keeps its conversation.
save_session(store, s) ==
  IF store[s].exists THEN store
  ELSE [ store EXCEPT ![s] = [ NoRow EXCEPT !.exists = TRUE ] ]

\* A variant of update_session that keeps a stored transcript at least as long as
\* the one it is given (the first of two racing writes wins).
update_session_first_write_wins(store, s, history, index, complete) ==
  IF store[s].exists /\ Len(store[s].conversation_history) < Len(history)
  THEN [ store EXCEPT ![s] = [ exists |-> TRUE, conversation_history |-> history,
                               current_question_index |-> index,
                               is_complete |-> complete ] ]
  ELSE store

\* UPDATE interview_sessions SET conversation_history, current_question_index,
\* is_complete WHERE session_id = s : the whole row is replaced; no row, no change.
update_session(store, s, history, index, complete) ==
  IF store[s].exists
  THEN [ store EXCEPT ![s] = [ exists |-> TRUE, conversation_history |-> history,
                               current_question_index |-> index,
                               is_complete |-> complete ] ]
  ELSE store

\* A variant of get_session that answers a new row for a session it does not find.
get_session_or_new(store, s) ==
  IF s \in Sessions /\ store[s].exists THEN store[s] ELSE [ NoRow EXCEPT !.exists = TRUE ]

\* SELECT * ... WHERE session_id = s : the row, or None (NoRow) without one.
get_session(store, s) == IF s \in Sessions THEN store[s] ELSE NoRow

\* INSERT INTO interview_rules ... : no uniqueness on (session_id, rule_text).
insert_rule(table, s, rule_text) ==
  [ table EXCEPT ![s][rule_text] = @ + 1 ]

\* SELECT COALESCE(MAX(CAST(session_id AS INTEGER)), 0)
RECURSIVE MaxId(_, _)
MaxId(store, n) ==
  IF n = 0 THEN 0 ELSE IF store[n].exists THEN n ELSE MaxId(store, n - 1)

get_max_session_id(store) == MaxId(store, MaxSessions)

(***************************************************************************)
(* Chunks of uploaded documents and the reads of the Chroma collection     *)
(* (main.py:619-680, 786-885, 984-1026; chroma_client.py:159-230).         *)
(***************************************************************************)
\* The texts of the chunks _extract_content yields.
ChunkTexts ==
  { "Praise effort, not outcome.", "Keep bedtime routines short.",
    "Keep bedtime routines under an hour.", "Offer two choices." }

\* hashlib.md5(content.encode()).hexdigest()[:8]
md5_8(content) ==
  CASE content = "Praise effort, not outcome."          -> "3f2501c4"
    [] content = "Keep bedtime routines short."         -> "92584252"
    [] content = "Keep bedtime routines under an hour." -> "9ff6bb6d"
    [] content = "Offer two choices."                   -> "00550e04"

\* main.py:517
MaxFileMB == 50

\* The files an expert uploads: the name, the size in MB and the chunks the
\* content yields; a guide, the guide with its second chunk rewritten, a file
\* without text, a file of another type and a file that is too large.
Files ==
  { [ filename |-> "guide.txt", size |-> 1,
      content_chunks |-> << "Praise effort, not outcome.", "Keep bedtime routines short.",
                            "Offer two choices." >> ],
    [ filename |-> "guide.txt", size |-> 1,
      content_chunks |-> << "Praise effort, not outcome.",
                            "Keep bedtime routines under an hour.",
                            "Offer two choices." >> ],
    [ filename |-> "guide.txt", size |-> 1, content_chunks |-> << >> ],
    [ filename |-> "notes.exe", size |-> 1,
      content_chunks |-> << "Praise effort, not outcome." >> ],
    [ filename |-> "guide.txt", size |-> MaxFileMB + 1,
      content_chunks |-> << "Praise effort, not outcome." >> ] }

\* main.py:507-508: os.path.splitext(file.filename.lower())[1] in allowed_extensions
AllowedExtension(filename) == filename \in { "guide.txt" }

\* document_processor.py:66: f"{session_id}_{filename}_{i}_{md5[:8]}"
chunk_id(s, filename, i, content) == << s, filename, i, md5_8(content) >>

\* document_processor.py:66-78: chunk i of the file, with its metadata.
Chunk(s, filename, i, content) ==
  [ id |-> chunk_id(s, filename, i, content), content |-> content,
    session_id |-> s, title |-> filename, chunk_index |-> i ]

\* Chunks per document in the collections the process can find at startup.
MaxChunks == 9

\* Chunk i of a document that earlier uploads left in the collection.
LibraryChunk(s, i) ==
  Chunk(s, "guide.txt", i,
        CASE i % 3 = 0 -> "Praise effort, not outcome."
          [] i % 3 = 1 -> "Keep bedtime routines short."
          [] OTHER     -> "Offer two choices.")

\* Collections the process can find: session 1 has a document of up to k
\* chunks, session 2 has none or one of two chunks.
LibrariesUpTo(k) ==
  { { LibraryChunk(1, i) : i \in 0..(n - 1) } \cup { LibraryChunk(2, i) : i \in 0..(m - 1) } :
      n \in 0..k, m \in { 0, 2 } }

Libraries == LibrariesUpTo(MaxChunks)

\* What the Chroma calls of a handler do: they answer, the client is not
\* connected (get_document_stats answers no chunks, as it does when its own get
\* raises), collection.get raises after the statistics answered, or the
\* document processor cannot be made.
Lookups == { "ok", "unreachable", "get_raises", "processor_raises" }

\* The chunks of a set by chunk_index (the order in which the uploads added
\* them; chunks of one index in the order of the store).
RECURSIVE InOrder(_)
InOrder(S) ==
  IF S = { } THEN << >>
  ELSE LET c == CHOOSE c \in S : \A d \in S : c.chunk_index <= d.chunk_index
       IN  << c >> \o InOrder(S \ { c })

\* A variant of collection_get that leaves the where clause out.
collection_get_all(collection, s) == InOrder(collection)

\* collection.get(where={"session_id": session_id})
collection_get(collection, s) == InOrder({ c \in collection : c.session_id = s })

\* chroma_client.py:159-201: total_chunks and the titles of the session.
get_document_stats(collection, s, lookup) ==
  LET results == IF lookup \in { "unreachable", "processor_raises" } THEN << >>
                 ELSE collection_get(collection, s)
  IN  [ total_chunks |-> Len(results),
        documents |-> { results[i].title : i \in DOMAIN results } ]

\* The chunks of a list with title t, and the others.
WithTitle(cs, t) == LET Test(c) == c.title = t IN SelectSeq(cs, Test)
WithoutTitle(cs, t) == LET Test(c) == c.title # t IN SelectSeq(cs, Test)

\* Python's chunks[-k:] and chunks[len(chunks)//2-1 : len(chunks)//2+1]
LastOf(cs, k) == SubSeq(cs, IF Len(cs) > k THEN Len(cs) - k + 1 ELSE 1, Len(cs))
MiddleTwo(cs) == SubSeq(cs, Len(cs) \div 2, Len(cs) \div 2 + 1)

\* A variant of chunks_to_include that samples no document.
chunks_to_include_all(cs) == cs

\* main.py:843-853: the chunks of one document that go into the prompt.
chunks_to_include(cs) ==
  IF Len(cs) <= 3 THEN cs
  ELSE IF Len(cs) <= 6 THEN SubSeq(cs, 1, 2) \o MiddleTwo(cs) \o LastOf(cs, 2)
  ELSE SubSeq(cs, 1, 3) \o MiddleTwo(cs) \o LastOf(cs, 3)

\* main.py:662-670: the chunks of one document that go into the doc-query reply.
sample_chunks(cs) ==
  IF Len(cs) <= 4 THEN cs
  ELSE SubSeq(cs, 1, 2) \o MiddleTwo(cs) \o LastOf(cs, 2)

\* The entries of one document: "From {title} (section {i+1}): {content}".
Sections(t, cs) == [ i \in 1..Len(cs) |-> [ title |-> t, section |-> i, chunk |-> cs[i] ] ]

\* main.py:830-858: the chunks are grouped by title in the order in which the
\* titles come, and each document is sampled.
RECURSIVE doc_context_parts(_)
doc_context_parts(all_chunks) ==
  IF all_chunks = << >> THEN << >>
  ELSE LET t == Head(all_chunks).title IN
       Sections(t, chunks_to_include(WithTitle(all_chunks, t)))
         \o doc_context_parts(WithoutTitle(all_chunks, t))

\* main.py:650-672: the same grouping for the doc-query reply.
RECURSIVE doc_sections(_)
doc_sections(all_chunks) ==
  IF all_chunks = << >> THEN << >>
  ELSE LET t == Head(all_chunks).title IN
       Sections(t, sample_chunks(WithTitle(all_chunks, t)))
         \o doc_sections(WithoutTitle(all_chunks, t))

\* A variant of doc_context that builds the context whatever the lookup did.
doc_context_despite_failure(collection, s, lookup) ==
  doc_context_parts(collection_get(collection, s))

\* main.py:786-885: the document context of the prompt of a turn; empty when the
\* session has no chunk or a call failed (the exceptions are caught and passed).
doc_context(collection, s, lookup) ==
  IF lookup = "ok" /\ get_document_stats(collection, s, lookup).total_chunks > 0
  THEN doc_context_parts(collection_get(collection, s))
  ELSE << >>

\* main.py:619-716: the reply to a document query.
DocQueryReply(collection, s, lookup) ==
  IF lookup = "processor_raises" THEN "trouble"
  ELSE IF get_document_stats(collection, s, lookup).documents = { } THEN "no_documents"
  ELSE IF lookup = "get_raises" THEN "trouble_content"
  ELSE "found"

\* The sections shown in the reply to a document query.
doc_query_content(collection, s, lookup) ==
  IF DocQueryReply(collection, s, lookup) = "found"
  THEN doc_sections(collection_get(collection, s))
  ELSE << >>

\* main.py:1021
MaxExtractionChunks == 50

\* main.py:984-1045: the document text passed to the rule extraction: the chunks
\* of the session sorted by chunk_index, the first 50 of them.
document_context(collection, s, lookup) ==
  IF lookup = "ok" /\ get_document_stats(collection, s, lookup).total_chunks > 0
  THEN LET sorted_chunks == collection_get(collection, s)
           kept == SubSeq(sorted_chunks, 1,
                          IF Len(sorted_chunks) > MaxExtractionChunks
                          THEN MaxExtractionChunks ELSE Len(sorted_chunks))
       IN  [ i \in 1..Len(kept) |-> [ title |-> kept[i].title, section |-> i,
                                      chunk |-> kept[i] ] ]
  ELSE << >>

(***************************************************************************)
(* The initial state: the process has started (startup_event, main.py:     *)
(* 224-257, its read of the store answered) over a store left by earlier   *)
(* runs, with no request in flight.                                        *)
(***************************************************************************)
\* A transcript of n answered questions, as n generated turns leave it.
RECURSIVE AnsweredTranscript(_)
AnsweredTranscript(n) ==
  IF n = 0 THEN << OpeningTurn >>
  ELSE AnsweredTranscript(n - 1)
         \o << UserTurn("we use reward charts"),
               GeneratedTurn("What outcomes do you aim for?") >>

StartedRow(n) == [ exists |-> TRUE, conversation_history |-> AnsweredTranscript(n),
                   current_question_index |-> n, is_complete |-> FALSE ]

\* The stores the process can find: empty, or one interview just started.
InitialStores ==
  { [ s \in Sessions |-> NoRow ],
    [ s \in Sessions |-> IF s = 1 THEN StartedRow(0) ELSE NoRow ] }

\* A store with one interview a question short of the ceiling.
CeilingStores ==
  { [ s \in Sessions |-> IF s = 1 THEN StartedRow(QuestionCeiling - 1) ELSE NoRow ] }

\* No /upload-doc request has returned yet.
NoUpload == [ n |-> 0, status |-> "none", session_id |-> 0, filename |-> "", size |-> 0,
              content_chunks |-> << >>, chunks_processed |-> 0, total_chunks |-> 0,
              skipped |-> 0, raised |-> FALSE, error |-> "none", logged |-> { } ]

StartedWith(stores, collections) ==
  /\ db \in stores
  /\ rules = [ s \in Sessions |-> [ t \in RuleTexts |-> 0 ] ]
  /\ session_counter = get_max_session_id(db) + 1
  /\ pc = [ r \in Reqs |-> "idle" ]
  /\ loc = [ r \in Reqs |-> NoLoc ]
  /\ last = NoLoc
  /\ chunks \in collections
  /\ upload = NoUpload
  /\ issued = 0
  /\ faults = 0

\* The same with an empty collection.
StartedOver(stores) == StartedWith(stores, { { } })

Init == StartedOver(InitialStores)

CeilingInit == StartedOver(CeilingStores)

\* Every session has started its interview and the collection holds documents.
LibraryInit == StartedWith({ [ s \in Sessions |-> StartedRow(0) ] }, Libraries)

\* The same with documents of at most two chunks.
FrameInit == StartedWith({ [ s \in Sessions |-> StartedRow(0) ] }, LibrariesUpTo(2))

(***************************************************************************)
(* Responses.                                                              *)
(***************************************************************************)
Resp(status, message, question_number, is_complete, auto_submitted) ==
  [ status |-> status, message |-> message, question_number |-> question_number,
    is_complete |-> is_complete, auto_submitted |-> auto_submitted ]

\* The handler returns: its response, next to what the request was, read and
\* computed.
Returned(l, resp) == [ l EXCEPT !.submitted = NoRow, !.resp = resp ]

\* Request r returns l: its slot is free again and l is the last return.
Return(r, l) ==
  /\ pc' = [ pc EXCEPT ![r] = "idle" ]
  /\ loc' = [ loc EXCEPT ![r] = NoLoc ]
  /\ last' = l

\* Request r is suspended at label with the locals l.
Suspend(r, label, l) ==
  /\ pc' = [ pc EXCEPT ![r] = label ]
  /\ loc' = [ loc EXCEPT ![r] = l ]
  /\ UNCHANGED last

InFlight(r) == pc[r] # "idle"

\* The store calls of one action: ok[c] tells whether call c answers or fails
\* (SupabaseClient catches the failure and answers False / None); made is the
\* set of calls the action reaches.  Any of the calls of one stretch may fail
\* together; faults counts the stretches in which some did.
StoreCallNames == { "insert", "read", "write", "close", "mark" }

Failed(ok, made) == IF \E c \in made : ~ok[c] THEN 1 ELSE 0

StoreCalls(ok, made) ==
  /\ \A c \in StoreCallNames \ made : ok[c]
  /\ faults + Failed(ok, made) <= MaxFaults
  /\ faults' = faults + Failed(ok, made)

\* The same for a stretch that also reads the Chroma collection when reads
\* holds: a lookup that fails makes it a stretch with a failure.
StoreAndChromaCalls(ok, made, reads, lookup) ==
  LET failed == IF lookup # "ok" THEN 1 ELSE Failed(ok, made) IN
  /\ \A c \in StoreCallNames \ made : ok[c]
  /\ reads \/ lookup = "ok"
  /\ faults + failed <= MaxFaults
  /\ faults' = faults + failed

\* A new request is served in the first slot that is free.
CanBegin(r) ==
  /\ ~InFlight(r)
  /\ \A q \in Reqs : q < r => InFlight(q)
  /\ issued < MaxRequests

\* What the doc-query branch answers (main.py:619-716): no document for the
\* session, the lookup raised, the content could not be read, or the sections.
DocReplies == { "no_documents", "trouble", "trouble_content", "found" }

\* main.py:921 and main.py:941
ShouldComplete(index, text) == index >= QuestionCeiling \/ HasConclusionKeyword(text)

\* The index the small-talk branch stores (main.py:760).
SmallTalkIndex == 1

\* A variant of NextQuestionIndex that counts down.
NextQuestionIndex_decrementing(session_data) ==
  IF session_data.current_question_index > 0
  THEN session_data.current_question_index - 1 ELSE 0

\* main.py:910
NextQuestionIndex(session_data) == session_data.current_question_index + 1

\* A variant of AlreadyComplete that never ends the request early.
AlreadyComplete_ignored(session_data) == FALSE

\* main.py:589
AlreadyComplete(session_data) == session_data.is_complete

\* A variant of WithUserTurn that starts the transcript over.
WithUserTurn_restarting(history, m) == << UserTurn(m) >>

\* A variant of WithUserTurn that leaves the expert's message out.
WithUserTurn_skipped(history, m) == history

\* main.py:596-598
WithUserTurn(history, m) == Append(history, UserTurn(m))

\* A variant of chat_error that answers as if the turn had gone well.
chat_error_as_reply == Resp("ok", << "none", "" >>, 0, FALSE, FALSE)

\* main.py:946-947: raise HTTPException(status_code=500, ...)
chat_error == Resp("500", << "none", "" >>, 0, FALSE, FALSE)

(***************************************************************************)
(* POST /submit_interview (main.py:951-1174), also called by /chat.        *)
(***************************************************************************)
\* The request returns once submit_interview is over.  Inside /chat
\* (main.py:929-944) a return of any kind sets auto_submitted and an
\* HTTPException leaves it False.
Finished(l, status) ==
  IF l.in_chat
  THEN Returned(l, Resp("ok", l.ai_message, l.current_question_index + 1,
                        ShouldComplete(l.current_question_index, l.ai_message[2]),
                        status # "404"))
  ELSE Returned(l, Resp(status, << "none", "" >>, 0, FALSE, FALSE))

\* main.py:956-959: how submit_interview goes on after reading session_data.
SubmitOutcome(session_data) ==
  IF ~session_data.exists THEN "404"
  ELSE IF ConversationTextLen(session_data.conversation_history) < MinConversationLen
  THEN "too_short"
  ELSE "extracting"

\* main.py:956-1090 over the store as the caller left it: read the session (a
\* missing one raises 404), mark it complete with the transcript and index that
\* were read, end on a conversation text under 100 characters, else read the
\* documents of the session and call the completion capability for the
\* extraction.
submit_interview_call(r, l, store, ok, lookup) ==
  LET session_data == IF ok["read"] THEN get_session(store, l.sid) ELSE NoRow
      outcome == SubmitOutcome(session_data)
  IN  /\ db' = IF session_data.exists /\ ok["mark"]
               THEN update_session(store, l.sid, session_data.conversation_history,
                                   session_data.current_question_index, TRUE)
               ELSE store
      /\ IF outcome = "extracting"
         THEN Suspend(r, "sub_llm",
                      [ l EXCEPT !.submitted = session_data,
                                 !.document_context =
                                     document_context(chunks, l.sid, lookup) ])
         ELSE Return(r, Finished(l, outcome))

\* The store calls submit_interview reaches before it is suspended.
SubmitCalls(store, s, ok) ==
  IF ok["read"] /\ get_session(store, s).exists THEN { "read", "mark" } ELSE { "read" }

\* submit_interview gets as far as reading the documents of the session.
SubmitReads(store, s, ok) ==
  ok["read"] /\ SubmitOutcome(get_session(store, s)) = "extracting"

submit_interview(r, s) ==
  /\ CanBegin(r)
  /\ issued' = issued + 1
  /\ \E ok \in [ StoreCallNames -> BOOLEAN ], lookup \in Lookups :
       /\ StoreAndChromaCalls(ok, SubmitCalls(db, s, ok), SubmitReads(db, s, ok), lookup)
       /\ submit_interview_call(r, [ NoLoc EXCEPT !.kind = "submit", !.sid = s ], db, ok,
                                lookup)
  /\ UNCHANGED << rules, session_counter, chunks, upload >>

\* main.py:1146-1156: the rows left by saving the tasks in order, each insert
\* answering an id or None (inserted[i] tells which).
RECURSIVE SaveTasks(_, _, _, _)
SaveTasks(table, s, tasks, inserted) ==
  IF tasks = << >> THEN table
  ELSE SaveTasks(IF Head(inserted) THEN insert_rule(table, s, Head(tasks)) ELSE table,
                 s, Tail(tasks), Tail(inserted))

\* main.py:1090-1174: the extraction call returns one of outputs or raises; its
\* output is filtered into task_statements and every task is saved.
extraction(r, outputs) ==
  /\ pc[r] = "sub_llm"
  /\ LET l == [ loc[r] EXCEPT !.called = TRUE ] IN
     \/ /\ Return(r, Finished(l, "error"))
        /\ UNCHANGED << rules, faults >>
     \/ \E out \in outputs :
          /\ Return(r, Finished([ l EXCEPT !.tasks_text = out,
                                           !.task_statements = task_statements(out) ],
                                "extracted"))
          /\ \E inserted \in [ 1..Len(task_statements(out)) -> BOOLEAN ] :
               LET failed == IF \E i \in DOMAIN inserted : ~inserted[i] THEN 1 ELSE 0 IN
               /\ faults + failed <= MaxFaults
               /\ faults' = faults + failed
               /\ rules' = SaveTasks(rules, l.sid, task_statements(out), inserted)
  /\ UNCHANGED << db, session_counter, chunks, upload, issued >>

sub_llm(r) == extraction(r, ExtractionOutputs)

\* The same step with any output of up to MaxLines lines.
sub_llm_any(r) == extraction(r, RawOutputs)

\* interview_ai.py:328-348: a call of extract_rules_from_conversation returns the
\* rules it extracts from the output of its completion call.
call_extract_rules_from_conversation ==
  /\ issued' = issued + 1
  /\ \E out \in RawOutputs :
       last' = [ NoLoc EXCEPT !.kind = "extract_rules", !.called = TRUE,
                              !.tasks_text = out,
                              !.task_statements = extract_rules_from_conversation(out) ]
  /\ UNCHANGED << db, rules, session_counter, pc, loc, chunks, upload, faults >>

(***************************************************************************)
(* POST /chat (main.py:575-947).                                           *)
(***************************************************************************)
\* main.py:585-767: the branch /chat takes for what it read and received.
ChatRoute(session_data, m) ==
  IF ~session_data.exists THEN "not_found"
  ELSE IF AlreadyComplete(session_data) THEN "completed"
  ELSE IF is_doc_query(m) THEN "doc_query"
  ELSE IF session_data.current_question_index = 0
          /\ is_smalltalk_or_project(m) \in SmallTalkLabels THEN "smalltalk"
  ELSE "generated"

\* main.py:576-899: read the session, reject a missing or completed one, append
\* the expert's message; answer and store a document query or small talk at
\* once, else call the completion capability.  The small-talk reply is returned
\* through sanitize_question (main.py:762), which leaves the six canned texts as
\* they are.
chat_with_interviewer(r, s, m) ==
  /\ CanBegin(r)
  /\ issued' = issued + 1
  /\ \E ok \in [ StoreCallNames -> BOOLEAN ], lookup \in Lookups :
       LET session_data == IF ok["read"] THEN get_session(db, s) ELSE NoRow
           route == ChatRoute(session_data, m)
           reads == route \in { "doc_query", "generated" }
           reply == IF route = "doc_query"
                    THEN DocReplyTurn(DocQueryReply(chunks, s, lookup))
                    ELSE CannedTurn(is_smalltalk_or_project(m))
           history == WithUserTurn(session_data.conversation_history, m)
           answered == Append(history, reply)
           writes == route \in { "doc_query", "smalltalk" }
           index == IF route = "smalltalk" THEN SmallTalkIndex
                    ELSE session_data.current_question_index
           l == [ NoLoc EXCEPT !.kind = "chat", !.sid = s, !.msg = m,
                               !.session_data = session_data, !.route = route,
                               !.conversation_history =
                                   IF writes THEN answered ELSE history,
                               !.current_question_index = index,
                               !.ai_message = IF writes THEN reply.content ELSE @,
                               !.lookup = IF route = "generated" THEN lookup ELSE @,
                               !.doc_context =
                                   CASE route = "doc_query" ->
                                          doc_query_content(chunks, s, lookup)
                                     [] route = "generated" ->
                                          doc_context(chunks, s, lookup)
                                     [] OTHER -> @,
                               !.saved = writes /\ ok["write"] ]
       IN  /\ StoreAndChromaCalls(ok, IF writes THEN { "read", "write" } ELSE { "read" },
                                   reads, lookup)
           /\ db' = IF ~(writes /\ ok["write"]) THEN db
                    ELSE IF route = "doc_query"
                    THEN update_session(db, s, answered, index, session_data.is_complete)
                    ELSE update_session(db, s, answered, index, FALSE)
           /\ CASE route = "not_found" ->
                    Return(r, Returned(l, Resp("404", << "none", "" >>, 0, FALSE, FALSE)))
                [] route = "completed" ->
                    Return(r, Returned(l, Resp("ok",
                                               << "none", "Interview has been completed." >>,
                                               0, TRUE, FALSE)))
                [] route = "doc_query" ->
                    Return(r, Returned(l, Resp("ok", reply.content,
                                               session_data.current_question_index + 1,
                                               FALSE, FALSE)))
                [] route = "smalltalk" ->
                    Return(r, Returned(l, Resp("ok",
                                               << reply.content[1],
                                                  sanitize_question(reply.content[2]) >>,
                                               1, FALSE, FALSE)))
                [] OTHER -> Suspend(r, "chat_llm", l)
  /\ UNCHANGED << rules, session_counter, chunks, upload >>

\* main.py:899-947: the completion call returns or raises.  A reply is sanitized,
\* appended and stored with the incremented index; at the ceiling or on a
\* concluding reply the closing note is appended and stored with the flag set and
\* submit_interview is called.
chat_llm(r) ==
  /\ pc[r] = "chat_llm"
  /\ LET l == [ loc[r] EXCEPT !.called = TRUE ] IN
     \/ /\ Return(r, Returned(l, chat_error))
        /\ UNCHANGED << db, faults >>
     \/ \E raw \in RawReplies, ok \in [ StoreCallNames -> BOOLEAN ], lookup \in Lookups :
          LET ai_message == clean_response(sanitize_question(raw))
              history == Append(l.conversation_history, GeneratedTurn(ai_message))
              current_question_index == NextQuestionIndex(l.session_data)
              stored == IF ok["write"]
                        THEN update_session(db, l.sid, history, current_question_index,
                                            l.session_data.is_complete)
                        ELSE db
              closed == IF ok["close"]
                        THEN update_session(stored, l.sid, Append(history, FinalNoteTurn),
                                            current_question_index, TRUE)
                        ELSE stored
              answered == [ l EXCEPT !.ai_message = GeneratedTurn(ai_message).content,
                                     !.conversation_history = history,
                                     !.current_question_index = current_question_index ]
          IN  IF ShouldComplete(current_question_index, ai_message)
              THEN /\ StoreAndChromaCalls(ok,
                                          { "write", "close" } \cup SubmitCalls(closed, l.sid, ok),
                                          SubmitReads(closed, l.sid, ok), lookup)
                   /\ submit_interview_call(r,
                        [ answered EXCEPT !.conversation_history = Append(history, FinalNoteTurn),
                                          !.saved = ok["write"] /\ ok["close"],
                                          !.in_chat = TRUE ],
                        closed, ok, lookup)
              ELSE /\ StoreAndChromaCalls(ok, { "write" }, FALSE, lookup)
                   /\ db' = stored
                   /\ Return(r, Returned([ answered EXCEPT !.saved = ok["write"] ],
                                          Resp("ok", GeneratedTurn(ai_message).content,
                                               current_question_index + 1, FALSE, FALSE)))
  /\ UNCHANGED << rules, session_counter, chunks, upload, issued >>

(***************************************************************************)
(* POST /start_interview_with_expert (main.py:436-475) and startup.        *)
(***************************************************************************)
\* main.py:440-475: take the next id, insert the session row and store the
\* opening turn; a failure of either call is logged and ignored.
start_interview_with_expert(r) ==
  /\ CanBegin(r)
  /\ session_counter \in Sessions
  /\ issued' = issued + 1
  /\ session_counter' = session_counter + 1
  /\ \E ok \in [ StoreCallNames -> BOOLEAN ] :
       LET inserted == IF ok["insert"] THEN save_session(db, session_counter) ELSE db IN
       /\ StoreCalls(ok, { "insert", "write" })
       /\ db' = IF ok["write"]
                THEN update_session(inserted, session_counter, << OpeningTurn >>, 0, FALSE)
                ELSE inserted
       /\ Return(r, Returned([ NoLoc EXCEPT !.kind = "start", !.sid = session_counter,
                                            !.saved = ok["insert"] /\ ok["write"] ],
                              Resp("ok", OpeningTurn.content, 0, FALSE, FALSE)))
  /\ UNCHANGED << rules, chunks, upload >>

\* main.py:224-257: the process restarts; requests in flight are lost and the
\* counter is read back from the store (get_max_session_id answers 0 on error).
startup_event ==
  /\ issued < MaxRequests
  /\ issued' = issued + 1
  /\ \E ok \in [ StoreCallNames -> BOOLEAN ] :
       /\ StoreCalls(ok, { "read" })
       /\ session_counter' = IF ok["read"] THEN get_max_session_id(db) + 1 ELSE 1
  /\ pc' = [ r \in Reqs |-> "idle" ]
  /\ loc' = [ r \in Reqs |-> NoLoc ]
  /\ last' = NoLoc
  /\ UNCHANGED << db, rules, chunks, upload >>

(***************************************************************************)
(* Documents: POST /upload-doc (main.py:482-573), DocumentProcessor        *)
(* (document_processor.py) and the Chroma collection (chroma_client.py).   *)
(***************************************************************************)
\* What the calls made for one chunk do: the existence check answers or raises,
\* the embedding and collection.add succeed or raise, and an add of an id that is
\* already there is ignored or raises (which of the two is up to the Chroma
\* release; it is reached only after a check that raised).
ChunkCalls ==
  { e \in [ check : BOOLEAN, add : { "ok", "raises" }, duplicate : { "ignored", "raises" } ] :
      ( e.check \/ e.add = "raises" ) => e.duplicate = "ignored" }

NoRaise(e) == e.check /\ e.add = "ok" /\ e.duplicate = "ignored"

\* The exceptions add_document_chunk catches and logs (chroma_client.py:154-155).
EmbeddingError == "embedding or add failed"
DuplicateIDError == "id already exists"

\* A variant of add_document_chunk that answers False for an id it finds.
add_document_chunk_found_fails(collection, chunk, e) ==
  LET exists == \E c \in collection : c.id = chunk.id IN
  IF exists \/ e.add = "raises"
  THEN [ collection |-> collection, success |-> FALSE, skipped |-> exists,
         error |-> IF e.add = "raises" THEN EmbeddingError ELSE DuplicateIDError ]
  ELSE [ collection |-> collection \cup { chunk }, success |-> TRUE, skipped |-> FALSE,
         error |-> "none" ]

\* chroma_client.py:111-156
add_document_chunk(collection, chunk, e) ==
  LET exists == \E c \in collection : c.id = chunk.id IN
  IF e.check /\ exists
  THEN [ collection |-> collection, success |-> TRUE, skipped |-> TRUE, error |-> "none" ]
  ELSE IF e.add = "raises"
  THEN [ collection |-> collection, success |-> FALSE, skipped |-> FALSE,
         error |-> EmbeddingError ]
  ELSE IF exists
  THEN [ collection |-> collection, success |-> e.duplicate = "ignored",
         skipped |-> FALSE,
         error |-> IF e.duplicate = "ignored" THEN "none" ELSE DuplicateIDError ]
  ELSE [ collection |-> collection \cup { chunk }, success |-> TRUE,
         skipped |-> FALSE, error |-> "none" ]

\* document_processor.py:61-96: the loop over enumerate(content_chunks), from
\* chunk i on; done counts the chunks of which add_document_chunk answered True,
\* found those it found stored already, logged is what it logged as errors.
RECURSIVE store_chunks(_, _, _, _, _, _, _, _, _)
store_chunks(collection, s, filename, content_chunks, calls, i, done, found, logged) ==
  IF i >= Len(content_chunks)
  THEN [ collection |-> collection, stored_chunks |-> done, skipped |-> found,
         logged |-> logged ]
  ELSE LET added == add_document_chunk(collection,
                                       Chunk(s, filename, i, content_chunks[i + 1]),
                                       calls[i + 1])
       IN  store_chunks(added.collection, s, filename, content_chunks, calls, i + 1,
                        IF added.success THEN done + 1 ELSE done,
                        IF added.skipped THEN found + 1 ELSE found,
                        logged \cup ( { added.error } \ { "none" } ))

\* main.py:482-573 with process_uploaded_file (document_processor.py:40-108): no
\* Chroma connection is a 503, another file type or a file over 50 MB a 400, a
\* file without text or with no chunk stored a 500; else the chunks are stored
\* one by one and the number that answered True is reported.
upload_document(s, file) ==
  /\ issued < MaxRequests
  /\ issued' = issued + 1
  /\ \E connected \in BOOLEAN,
        calls \in [ 1..Len(file.content_chunks) -> ChunkCalls ] :
       LET processes == /\ connected /\ AllowedExtension(file.filename)
                        /\ file.size <= MaxFileMB
                        /\ file.content_chunks # << >>
           raised == ~connected \/ ( processes /\ \E i \in DOMAIN calls : ~NoRaise(calls[i]) )
           failed == IF raised THEN 1 ELSE 0
           result == store_chunks(chunks, s, file.filename, file.content_chunks, calls,
                                  0, 0, 0, { })
           request == [ NoUpload EXCEPT !.n = issued + 1, !.session_id = s,
                                        !.filename = file.filename, !.size = file.size,
                                        !.content_chunks = file.content_chunks,
                                        !.raised = raised ]
       IN  /\ processes \/ \A i \in DOMAIN calls : NoRaise(calls[i])
           /\ faults + failed <= MaxFaults
           /\ faults' = faults + failed
           /\ chunks' = IF processes THEN result.collection ELSE chunks
           /\ upload' =
                CASE ~connected -> [ request EXCEPT !.status = "503" ]
                  [] connected /\ ( ~AllowedExtension(file.filename)
                                    \/ file.size > MaxFileMB ) ->
                       [ request EXCEPT !.status = "400" ]
                  [] processes /\ result.stored_chunks > 0 ->
                       [ request EXCEPT !.status = "ok",
                                        !.chunks_processed = result.stored_chunks,
                                        !.total_chunks = Len(file.content_chunks),
                                        !.skipped = result.skipped,
                                        !.logged = result.logged ]
                  [] processes ->
                       [ request EXCEPT !.status = "500",
                                        !.total_chunks = Len(file.content_chunks),
                                        !.logged = result.logged,
                                        !.error = "Failed to process any chunks" ]
                  [] OTHER ->
                       [ request EXCEPT !.status = "500",
                                        !.error = "No content extracted from document" ]
  /\ UNCHANGED << db, rules, session_counter, pc, loc, last >>

\* The methods of ChromaDocumentClient (chroma_client.py:17-254).
ChromaDocumentClientMethods ==
  { "__init__", "add_document_chunk", "get_document_stats", "delete_session_documents",
    "get_collection_info", "_embed_texts" }

\* A variant of search_similar_chunks that answers the chunks of the session.
search_similar_chunks_of_session(collection, s, limit, lookup) ==
  LET found == collection_get(collection, s) IN
  IF lookup # "ok" THEN << >>
  ELSE SubSeq(found, 1, IF Len(found) > limit THEN limit ELSE Len(found))

\* document_processor.py:306-325: without a connection the answer is [];
\* else the search is passed on to self.chroma_client.search_similar_chunks,
\* which is no method of ChromaDocumentClient: the AttributeError is caught
\* (document_processor.py:323-325) and the answer is [].
search_similar_chunks(collection, s, limit, lookup) ==
  IF lookup = "unreachable" THEN << >>
  ELSE IF "search_similar_chunks" \notin ChromaDocumentClientMethods THEN << >>
  ELSE search_similar_chunks_of_session(collection, s, limit, lookup)

\* The limits a caller passes (3 in test_document_qa.py:143-147, 5 by default).
Limits == { 3, 5 }

\* A call of DocumentProcessor.search_similar_chunks for session s.
call_search_similar_chunks(s, limit) ==
  /\ issued < MaxRequests
  /\ issued' = issued + 1
  /\ \E lookup \in { "ok", "unreachable" } :
       LET failed == IF lookup # "ok" THEN 1 ELSE 0 IN
       /\ faults + failed <= MaxFaults
       /\ faults' = faults + failed
       /\ last' = [ NoLoc EXCEPT !.kind = "search", !.sid = s, !.lookup = lookup,
                                 !.limit = limit,
                                 !.doc_context =
                                     search_similar_chunks(chunks, s, limit, lookup) ]
  /\ UNCHANGED << db, rules, session_counter, pc, loc, chunks, upload >>

\* A variant of delete_session_documents that empties the collection.
delete_session_documents_all(collection, s, lookup) ==
  IF lookup # "ok" THEN [ collection |-> collection, success |-> FALSE ]
  ELSE [ collection |-> { }, success |-> TRUE ]

\* chroma_client.py:203-230: the chunks of the session are looked up and
\* deleted by id; without a connection or on an exception the answer is False.
delete_session_documents(collection, s, lookup) ==
  IF lookup # "ok" THEN [ collection |-> collection, success |-> FALSE ]
  ELSE [ collection |-> { c \in collection : c.session_id # s }, success |-> TRUE ]

\* A call of DocumentProcessor.delete_session_documents for session s
\* (document_processor.py:335-341).
call_delete_session_documents(s) ==
  /\ issued < MaxRequests
  /\ issued' = issued + 1
  /\ \E lookup \in { "ok", "unreachable", "get_raises" } :
       LET failed == IF lookup # "ok" THEN 1 ELSE 0
           deleted == delete_session_documents(chunks, s, lookup)
       IN  /\ faults + failed <= MaxFaults
           /\ faults' = faults + failed
           /\ chunks' = deleted.collection
           /\ last' = [ NoLoc EXCEPT !.kind = "delete", !.sid = s, !.lookup = lookup,
                                     !.saved = deleted.success ]
  /\ UNCHANGED << db, rules, session_counter, pc, loc, upload >>

(***************************************************************************)
(* Specifications.                                                         *)
(***************************************************************************)
Next ==
  \/ \E r \in Reqs, s \in Sessions, m \in Messages : chat_with_interviewer(r, s, m)
  \/ \E r \in Reqs : chat_llm(r)
  \/ \E r \in Reqs, s \in Sessions : submit_interview(r, s)
  \/ \E r \in Reqs : sub_llm(r)
  \/ \E r \in Reqs : start_interview_with_expert(r)
  \/ startup_event

Spec == Init /\ [][Next]_vars

\* One request at a time: a request begins only when no other is in flight.
NoneInFlight == \A r \in Reqs : ~InFlight(r)

SeqNext ==
  \/ \E r \in Reqs, s \in Sessions, m \in Messages :
       NoneInFlight /\ chat_with_interviewer(r, s, m)
  \/ \E r \in Reqs : chat_llm(r)
  \/ \E r \in Reqs, s \in Sessions : NoneInFlight /\ submit_interview(r, s)
  \/ \E r \in Reqs : sub_llm(r)
  \/ \E r \in Reqs : NoneInFlight /\ start_interview_with_expert(r)
  \/ NoneInFlight /\ startup_event

SeqSpec == Init /\ [][SeqNext]_vars

\* The same handlers over an interview that is about to reach the ceiling.
CeilingSpec == CeilingInit /\ [][Next]_vars

CeilingSeqSpec == CeilingInit /\ [][SeqNext]_vars

\* One finalize request, or one call of the extractor of interview_ai.py, over
\* every extraction output of up to MaxLines lines.
ExtractNext ==
  \/ \E r \in Reqs, s \in Sessions : issued = 0 /\ submit_interview(r, s)
  \/ \E r \in Reqs : sub_llm_any(r)
  \/ issued = 0 /\ call_extract_rules_from_conversation

ExtractSpec == Init /\ [][ExtractNext]_vars

(***************************************************************************)
(* The chunker (src/document_processor.py:281-304) and a caller of it.     *)
(* A text is a sequence of pieces: a space, a word, three long runs of     *)
(* letters, and the delimiter ". " the chunker splits on.                  *)
(***************************************************************************)
\* document_processor.py:37: tokens per chunk.
chunk_size == 500

MaxTextLen == 4

Delimiter == ". "

Pieces == { " ", "calm", "z*501", "x*1500", "y*2100", Delimiter }

Texts == UNION { [ 1..n -> Pieces ] : n \in 0..MaxTextLen }

\* The characters of a piece; "." is what strip leaves of a closing ". ".
PieceLen(p) ==
  CASE p = " " -> 1
    [] p = "calm" -> 4
    [] p = "z*501" -> 501
    [] p = "x*1500" -> 1500
    [] p = "y*2100" -> 2100
    [] p = Delimiter -> 2
    [] p = "." -> 1

RECURSIVE len(_)
len(t) == IF t = << >> THEN 0 ELSE PieceLen(Head(t)) + len(Tail(t))

\* str.split('. '): the stretches between the delimiters, one for a text without.
RECURSIVE split(_)
split(t) ==
  IF \A i \in 1..Len(t) : t[i] # Delimiter THEN << t >>
  ELSE LET i == CHOOSE j \in 1..Len(t) :
                  t[j] = Delimiter /\ \A k \in 1..(j - 1) : t[k] # Delimiter
       IN  << SubSeq(t, 1, i - 1) >> \o split(SubSeq(t, i + 1, Len(t)))

RECURSIVE lstrip(_)
lstrip(t) == IF t # << >> /\ Head(t) = " " THEN lstrip(Tail(t)) ELSE t

RECURSIVE rstrip(_)
rstrip(t) ==
  IF t = << >> THEN t
  ELSE LET front == SubSeq(t, 1, Len(t) - 1)
       IN  IF t[Len(t)] = " " THEN rstrip(front)
           ELSE IF t[Len(t)] = Delimiter THEN Append(front, ".")
           ELSE t

\* str.strip(): the text without the white space at its two ends.
strip(t) == rstrip(lstrip(t))

\* A variant of split_loop that starts the new buffer without the sentence that
\* made the old one overflow.
RECURSIVE split_loop_dropping(_, _, _)
split_loop_dropping(sentences, text_chunks, current_chunk) ==
  IF sentences = << >>
  THEN [ text_chunks |-> text_chunks, current_chunk |-> current_chunk ]
  ELSE LET sentence == Head(sentences)
           estimated_tokens == len(current_chunk \o sentence) \div 4
       IN  IF estimated_tokens > chunk_size /\ current_chunk # << >>
           THEN split_loop_dropping(Tail(sentences),
                                    Append(text_chunks, strip(current_chunk)), << >>)
           ELSE split_loop_dropping(Tail(sentences), text_chunks,
                                    current_chunk \o sentence \o << Delimiter >>)

\* document_processor.py:290-298: the loop over the sentences.
RECURSIVE split_loop(_, _, _)
split_loop(sentences, text_chunks, current_chunk) ==
  IF sentences = << >>
  THEN [ text_chunks |-> text_chunks, current_chunk |-> current_chunk ]
  ELSE LET sentence == Head(sentences)
           estimated_tokens == len(current_chunk \o sentence) \div 4
       IN  IF estimated_tokens > chunk_size /\ current_chunk # << >>
           THEN split_loop(Tail(sentences),
                           Append(text_chunks, strip(current_chunk)),
                           sentence \o << Delimiter >>)
           ELSE split_loop(Tail(sentences), text_chunks,
                           current_chunk \o sentence \o << Delimiter >>)

\* document_processor.py:281-304
split_text_into_chunks(text) ==
  LET end == split_loop(split(text), << >>, << >>)
  IN  IF strip(end.current_chunk) # << >>
      THEN Append(end.text_chunks, strip(end.current_chunk))
      ELSE end.text_chunks

\* document_processor.py:267-273: the text of a TXT file is chunked only when
\* it holds more than white space.
extract_txt_content(text) ==
  IF strip(text) # << >>
  THEN LET text_chunks == split_text_into_chunks(text)
       IN  [ i \in 1..Len(text_chunks) |-> strip(text_chunks[i]) ]
  ELSE << >>

call_split_text_into_chunks ==
  /\ issued' = issued + 1
  /\ \E text \in Texts :
       last' = [ NoLoc EXCEPT !.kind = "split", !.text = text,
                              !.text_chunks = split_text_into_chunks(text) ]
  /\ UNCHANGED << db, rules, session_counter, pc, loc, chunks, upload, faults >>

call_extract_txt_content ==
  /\ issued' = issued + 1
  /\ \E text \in Texts :
       last' = [ NoLoc EXCEPT !.kind = "extract_txt", !.text = text,
                              !.text_chunks = extract_txt_content(text) ]
  /\ UNCHANGED << db, rules, session_counter, pc, loc, chunks, upload, faults >>

\* One call of the chunker or of the TXT extractor on one text.
ChunkerNext ==
  \/ issued = 0 /\ call_split_text_into_chunks
  \/ issued = 0 /\ call_extract_txt_content

ChunkerSpec == Init /\ [][ChunkerNext]_vars

(***************************************************************************)
(* DatabaseManager.get_all_rules (src/database.py:285-299): the bulk read  *)
(* of the MongoDB rules collection and its retries.                        *)
(***************************************************************************)
\* database.py:287: range(3)
MaxAttempts == 3

\* database.py:297: asyncio.sleep(1)
RetryPause == 1

\* Documents of the rules collection; the last lacks fields ExtractedRuleModel
\* requires (database.py:33-42).
RuleDocs ==
  { [ rule_id |-> "rule_1", extracted_at |-> 1, valid |-> TRUE ],
    [ rule_id |-> "rule_2", extracted_at |-> 2, valid |-> TRUE ],
    [ rule_id |-> "rule_3", extracted_at |-> 3, valid |-> FALSE ] }

\* database.py:72: rules_collection is None until connect() has run.
RuleCollections ==
  { [ connected |-> FALSE, docs |-> { } ] }
    \cup { [ connected |-> TRUE, docs |-> S ] : S \in SUBSET RuleDocs }

\* database.py:285: the default and a limit below the size of the collection.
RuleLimits == { 1, 100 }

\* .sort("extracted_at", -1)
RECURSIVE ByExtractedAtDesc(_)
ByExtractedAtDesc(S) ==
  IF S = { } THEN << >>
  ELSE LET d == CHOOSE x \in S : \A y \in S : y.extracted_at <= x.extracted_at
       IN  << d >> \o ByExtractedAtDesc(S \ { d })

\* .limit(limit)
Limited(docs, limit) == SubSeq(docs, 1, IF Len(docs) < limit THEN Len(docs) ELSE limit)

\* database.py:289-293: one attempt.  It raises when the collection is None,
\* when the cursor raises, or when a document it reads is not a rule model.
Attempt(collection, limit, cursor) ==
  IF ~collection.connected \/ cursor = "raises"
  THEN [ raised |-> TRUE, rules |-> << >> ]
  ELSE LET docs == Limited(ByExtractedAtDesc(collection.docs), limit)
       IN  IF \E i \in DOMAIN docs : ~docs[i].valid
           THEN [ raised |-> TRUE, rules |-> << >> ]
           ELSE [ raised |-> FALSE, rules |-> docs ]

\* A variant of LastAttempt that finds no attempt the last.
LastAttempt_never(attempt) == FALSE

\* database.py:296: `if attempt < 2` is false
LastAttempt(attempt) == attempt >= MaxAttempts - 1

\* database.py:285-289: the call enters its first attempt and waits for the
\* cursor.
get_all_rules(r, limit) ==
  /\ CanBegin(r)
  /\ issued' = issued + 1
  /\ \E collection \in RuleCollections :
       Suspend(r, "rules_find",
               [ NoLoc EXCEPT !.kind = "get_all_rules", !.limit = limit,
                              !.rules_collection = collection ])
  /\ UNCHANGED << db, rules, session_counter, chunks, upload, faults >>

\* database.py:289-299: the attempt ends.  The call returns its rules, or after
\* a failure goes to sleep, or after the last failure returns the empty list.
rules_find(r) ==
  /\ pc[r] = "rules_find"
  /\ \E cursor \in { "ok", "raises" } :
       LET l == loc[r]
           a == Attempt(l.rules_collection, l.limit, cursor)
           made == [ l EXCEPT !.outcomes =
                                  Append(@, IF a.raised THEN "raised" ELSE "ok") ]
       IN  IF ~a.raised
           THEN Return(r, [ made EXCEPT !.all_rules = a.rules ])
           ELSE IF ~LastAttempt(l.attempt)
           THEN Suspend(r, "rules_sleep", made)
           ELSE Return(r, [ made EXCEPT !.all_rules = << >> ])
  /\ UNCHANGED << db, rules, session_counter, chunks, upload, issued, faults >>

\* database.py:297-298 and 287: the pause is over and the next attempt begins.
rules_sleep(r) ==
  /\ pc[r] = "rules_sleep"
  /\ Suspend(r, "rules_find",
             [ loc[r] EXCEPT !.slept = @ + RetryPause, !.attempt = @ + 1 ])
  /\ UNCHANGED << db, rules, session_counter, chunks, upload, issued, faults >>

\* One call of get_all_rules: calls share nothing but the collection they read.
RulesNext ==
  \/ \E r \in Reqs, limit \in RuleLimits : issued = 0 /\ get_all_rules(r, limit)
  \/ \E r \in Reqs : rules_find(r)
  \/ \E r \in Reqs : rules_sleep(r)

RulesSpec == Init /\ [][RulesNext]_vars

\* The same under a scheduler that lets every pending attempt and pause end.
RulesFairSpec ==
  RulesSpec /\ \A r \in Reqs : WF_vars(rules_find(r)) /\ WF_vars(rules_sleep(r))

\* The interview handlers next to uploads, over stores in which sessions are
\* missing: an upload comes first or follows one request that has returned.
ValidationNext ==
  \/ \E r \in Reqs, s \in Sessions, m \in Messages : chat_with_interviewer(r, s, m)
  \/ \E r \in Reqs : chat_llm(r)
  \/ \E r \in Reqs, s \in Sessions : submit_interview(r, s)
  \/ \E r \in Reqs : sub_llm(r)
  \/ \E s \in Sessions, file \in Files :
       issued <= 1 /\ NoneInFlight /\ upload_document(s, file)

ValidationSpec == Init /\ [][ValidationNext]_vars

\* Uploads alone: the collection is touched by no other handler.
DocNext == \E s \in Sessions, file \in Files : upload_document(s, file)

DocSpec == Init /\ [][DocNext]_vars

\* One request that reads the documents of a session, over every library.
LibraryNext ==
  \/ \E r \in Reqs, s \in Sessions, m \in Messages :
       issued = 0 /\ chat_with_interviewer(r, s, m)
  \/ \E r \in Reqs : chat_llm(r)
  \/ \E r \in Reqs, s \in Sessions : issued = 0 /\ submit_interview(r, s)
  \/ \E r \in Reqs : sub_llm(r)
  \/ \E s \in Sessions, limit \in Limits : issued = 0 /\ call_search_similar_chunks(s, limit)

LibrarySpec == LibraryInit /\ [][LibraryNext]_vars

\* An upload or a deletion over small documents, or a request that reads
\* documents, and one request that reads documents after it.
FrameNext ==
  \/ \E r \in Reqs, s \in Sessions, m \in Messages :
       issued <= 1 /\ NoneInFlight /\ chat_with_interviewer(r, s, m)
  \/ \E r \in Reqs : chat_llm(r)
  \/ \E r \in Reqs, s \in Sessions : issued <= 1 /\ NoneInFlight /\ submit_interview(r, s)
  \/ \E r \in Reqs : sub_llm(r)
  \/ \E s \in Sessions, file \in Files :
       issued = 0 /\ upload_document(s, file)
  \/ \E s \in Sessions, limit \in Limits :
       issued <= 1 /\ NoneInFlight /\ call_search_similar_chunks(s, limit)
  \/ \E s \in Sessions : issued = 0 /\ call_delete_session_documents(s)

FrameSpec == FrameInit /\ [][FrameNext]_vars

(***************************************************************************)
(* Properties.                                                             *)
(***************************************************************************)
\* A request returns in the step: one in flight leaves its handler, or one
\* begins and returns at once (a restart returns nothing).
Returns ==
  /\ last'.kind # "none"
  /\ \/ \E r \in Reqs : pc[r] # "idle" /\ pc'[r] = "idle"
     \/ issued' # issued /\ pc' = pc

\* The request that acts in the step, as it returns or is left suspended.
Acting ==
  IF Returns THEN { last' }
  ELSE { loc'[r] : r \in { q \in Reqs : pc'[q] # "idle" /\ loc'[q] # loc[q] } }

\* The step resumes a request suspended at label.
ResumesAt(label) == \E r \in Reqs : pc[r] = label /\ pc'[r] # label

\* The step is one of a /chat or /submit_interview request.
ChatOrSubmitStep == \E l \in Acting : l.kind \in { "chat", "submit" }

IsPrefix(a, b) == Len(a) <= Len(b) /\ SubSeq(b, 1, Len(a)) = a

Range(h) == { h[i] : i \in DOMAIN h }

\* Turn a directly followed by turn b in transcript h.
Consecutive(h, a, b) == \E i \in 1..(Len(h) - 1) : h[i] = a /\ h[i + 1] = b

\* C1: when /chat stores the canned reply to a small-talk message read at
\* question index 0, the persisted question index of the session is still 0.
C1_SmallTalkKeepsIndex ==
  [][ \A l \in Acting :
        ( l.kind = "chat" /\ l.route = "smalltalk" /\ l.saved )
        => db'[l.sid].current_question_index = 0 ]_vars

\* C2: a small-talk turn handled at question index 0 never calls the completion
\* capability, answers the canned text of the label, and leaves the persisted
\* transcript exactly two turns longer: the expert's message, then that reply.
C2_SmallTalkTurn ==
  [][ \A l \in Acting :
        ( l.kind = "chat" /\ l.route = "smalltalk" )
        => LET label == is_smalltalk_or_project(l.msg)
           IN  /\ ~l.called
               /\ Returns
               /\ l.resp.message = CannedTurn(label).content
               /\ db'[l.sid].conversation_history =
                    db[l.sid].conversation_history
                      \o << UserTurn(l.msg), CannedTurn(label) >> ]_vars

\* C3: with requests processed one at a time, no step of a /chat or
\* /submit_interview request lowers the persisted question index of a session.
C3_IndexNeverDecreases ==
  [][ ChatOrSubmitStep =>
        \A s \in Sessions :
          db'[s].current_question_index >= db[s].current_question_index ]_vars

\* C3 happens: a second /chat in a row has raised the index it read, itself
\* raised by the first.
C3_IndexRaisedTwice ==
  /\ last.kind = "chat" /\ last.route = "generated"
  /\ last.saved /\ issued >= 2
  /\ last.session_data.current_question_index >= 1
  /\ db[last.sid].current_question_index
       = last.session_data.current_question_index + 1

\* C4: once the persisted completion flag of a session is true, no step of a
\* /chat or /submit_interview request makes it false, whatever the interleaving.
C4_CompleteStaysComplete ==
  [][ ChatOrSubmitStep =>
        \A s \in Sessions : db[s].is_complete => db'[s].is_complete ]_vars

\* C5: a /chat request that reads a session whose completion flag is true returns
\* at once without an interviewer turn, without calling the completion
\* capability, and leaves the store (transcript, index, flag, rules) as it was.
C5_CompleteIsTerminal ==
  [][ \A l \in Acting :
        ( l.kind = "chat" /\ l.session_data.is_complete )
        => /\ Returns
           /\ ~l.called
           /\ l.resp.message[1] = "none"
           /\ l.resp.is_complete
           /\ db' = db
           /\ rules' = rules ]_vars

\* C5 happens: a /chat request has been answered on a completed session.
C5_ChatOnCompleteSession ==
  /\ last.kind = "chat" /\ last.route = "completed"
  /\ db[last.sid].is_complete
  /\ Len(db[last.sid].conversation_history) > 1

\* C6: with requests processed one at a time, every step of a /chat or
\* /submit_interview request leaves each persisted transcript with the transcript
\* persisted before it as a prefix.
C6_TranscriptAppendOnly ==
  [][ ChatOrSubmitStep =>
        \A s \in Sessions :
          IsPrefix(db[s].conversation_history, db'[s].conversation_history) ]_vars

\* C6 happens: a second request in a row has stored a transcript that extends
\* the one it read by its own two turns.
C6_TranscriptExtendedTwice ==
  /\ last.kind = "chat" /\ last.saved /\ issued >= 2
  /\ Len(last.session_data.conversation_history) >= 3
  /\ Len(db[last.sid].conversation_history)
       = Len(last.session_data.conversation_history) + 2
  /\ IsPrefix(last.session_data.conversation_history,
              db[last.sid].conversation_history)

\* The /chat requests that have stored their turn: the one that returned last
\* and those awaiting the extraction.
StoredChats ==
  { l \in { last } \cup { loc[q] : q \in { p \in Reqs : pc[p] = "sub_llm" } } :
      l.kind = "chat" /\ l.saved }

\* C7: in the step in which a /chat request stores its turn, the persisted
\* transcript and question index become exactly the ones that request computed
\* from what it read, and the expert's message of another /chat request that
\* read the same session state and had stored its own turn is no longer in the
\* transcript.
C7_LastWriteWins ==
  [][ \A l \in Acting :
        ( ~ResumesAt("sub_llm") /\ l.kind = "chat" /\ l.saved )
        => /\ db'[l.sid].conversation_history = l.conversation_history
           /\ db'[l.sid].current_question_index = l.current_question_index
           /\ \A o \in StoredChats :
                ( /\ o.sid = l.sid
                  /\ o.session_data = l.session_data
                  /\ o.msg # l.msg
                  /\ UserTurn(o.msg) \notin Range(l.session_data.conversation_history) )
                => UserTurn(o.msg) \notin Range(db'[l.sid].conversation_history)
         ]_vars

\* C7 happens: two /chat requests read the same state of a session, both stored
\* their turns, and the store holds the turns of one of them only.
C7_RaceLost ==
  \E r \in Reqs :
    /\ pc[r] = "sub_llm" /\ loc[r].kind = "chat" /\ loc[r].saved
    /\ last.kind = "chat" /\ last.saved
    /\ last.sid = loc[r].sid
    /\ last.session_data = loc[r].session_data
    /\ last.msg # loc[r].msg
    /\ db[loc[r].sid].conversation_history = loc[r].conversation_history
    /\ db[loc[r].sid].current_question_index = loc[r].current_question_index
    /\ UserTurn(last.msg) \notin Range(db[loc[r].sid].conversation_history)

\* C8: in every persisted transcript two adjacent turns have different roles,
\* unless the second is the closing note and the first an interviewer turn.
C8_RolesAlternate ==
  \A s \in Sessions :
    LET h == db[s].conversation_history IN
    \A i \in 1..(Len(h) - 1) :
      h[i].role = h[i + 1].role
        => h[i].role = "assistant" /\ h[i + 1] = FinalNoteTurn

\* C8 happens: a transcript holds small talk, a document query and a generated
\* turn closed by the closing note.
C8_ClosingAfterInterviewer ==
  \E s \in Sessions :
    LET h == db[s].conversation_history IN
    /\ \E i \in 1..(Len(h) - 1) :
         h[i].content[1] = "generated" /\ h[i + 1] = FinalNoteTurn
    /\ \E i \in DOMAIN h : h[i].content[1] \in { "canned", "doc_reply" }

\* C9: when the completion call of a /chat turn fails, the request returns the
\* error response and the step leaves the store as it was.
C9_CompletionFailure ==
  [][ ( Returns /\ ResumesAt("chat_llm")
        /\ last'.ai_message = NoLoc.ai_message )
      => /\ last'.resp.status = "500"
         /\ last'.resp.message[1] = "none"
         /\ db' = db
         /\ rules' = rules ]_vars

\* C9 happens: a /chat request whose completion call failed has returned, and the
\* session is as the request read it.
C9_FailedTurn ==
  /\ last.kind = "chat" /\ last.called
  /\ last.resp.status = "500"
  /\ last.session_data.exists
  /\ db[last.sid] = last.session_data

\* C10: with requests processed one at a time, whenever /chat returns a
\* successful response carrying an interviewer message, the expert's message
\* directly followed by that message is in the persisted transcript, and for a
\* generated or document-query turn the persisted question index is the
\* response's question number less one (the index the small-talk branch stores
\* is the subject of C1).
C10_ResponseIsPersisted ==
  [][ ( Returns /\ last'.kind = "chat" /\ last'.resp.status = "ok"
        /\ last'.resp.message[1] # "none" )
      => LET l == last'
             row == db'[l.sid]
         IN  /\ Consecutive(row.conversation_history, UserTurn(l.msg),
                            Turn("assistant", l.resp.message[1], l.resp.message[2]))
             /\ l.route \in { "generated", "doc_query" }
                  => row.current_question_index = l.resp.question_number - 1
         ]_vars

\* C11: in the step in which /chat stores a generated turn under the incremented
\* question index, the persisted completion flag of the session becomes true if
\* the new index is at least 23 or the sanitized reply holds a conclusion keyword,
\* and false otherwise.
C11_CompletionCheck ==
  [][ \A l \in Acting :
        ( ResumesAt("chat_llm") /\ l.kind = "chat" /\ l.ai_message[1] = "generated" )
        => db'[l.sid].is_complete
             = ( l.current_question_index >= QuestionCeiling
                 \/ HasConclusionKeyword(l.ai_message[2]) ) ]_vars

\* C12: in the step in which /chat decides that the interview is complete, the
\* persisted transcript ends with the closing note, the persisted completion flag
\* is true, and the request is left awaiting the one extraction call, made for the
\* transcript that was persisted, closing note included.
C12_ClosingBeforeExtraction ==
  [][ \A l \in Acting :
        ( /\ ResumesAt("chat_llm") /\ l.kind = "chat" /\ l.ai_message[1] = "generated"
          /\ ( l.current_question_index >= QuestionCeiling
               \/ HasConclusionKeyword(l.ai_message[2]) ) )
        => LET row == db'[l.sid] IN
           /\ row.conversation_history # << >>
           /\ row.conversation_history[Len(row.conversation_history)] = FinalNoteTurn
           /\ row.is_complete
           /\ ~Returns
           /\ \E r \in Reqs : pc'[r] = "sub_llm" /\ loc'[r] = l
           /\ l.submitted.conversation_history = row.conversation_history ]_vars

\* C13: in every reachable state, a session with at least one persisted rule has
\* its persisted completion flag true.
C13_RulesOnlyWhenComplete ==
  \A s \in Sessions :
    ( \E t \in RuleTexts : rules[s][t] > 0 ) => db[s].is_complete

\* C14: however often a session is finalized, no rule text is stored more than
\* once for it.
C14_NoRuleStoredTwice ==
  \A s \in Sessions : \A t \in RuleTexts : rules[s][t] <= 1

\* An extraction has returned in the step: that of /submit_interview, or a call
\* of extract_rules_from_conversation.
ExtractionReturns ==
  /\ Returns /\ last'.called
  /\ \/ ResumesAt("sub_llm") /\ last'.resp.status \in { "extracted", "ok" }
     \/ last'.kind = "extract_rules"

\* The output is "NONE" in some letter case, has nothing but blanks, or is
\* shorter than 10 characters.
NothingToExtract(out) ==
  \/ Len(out) = 1 /\ Upper(out[1]) = "NONE"
  \/ \A i \in DOMAIN out : StripLine(out[i]) = ""
  \/ TasksTextLen(out) < 10

\* C15: when an extraction returns for an output that is "NONE" in any letter
\* case, blank or shorter than 10 characters, the list of extracted rules is empty
\* and the step stores no rule.
C15_SentinelYieldsNothing ==
  [][ ( ExtractionReturns /\ NothingToExtract(last'.tasks_text) )
      => /\ last'.task_statements = << >>
         /\ rules' = rules ]_vars

\* C15 happens: a /submit_interview whose extraction answered "none" has returned
\* and the session has no rule.
C15_LowercaseNone ==
  /\ last.kind = "submit" /\ last.resp.status = "extracted"
  /\ last.tasks_text = << "none" >>
  /\ db[last.sid].is_complete
  /\ \A t \in RuleTexts : rules[last.sid][t] = 0

\* A line of the output, trimmed, that the claim says is a rule: no sentinel, at
\* least 20 characters, holding one of the keywords terms.
IsRuleLine(t, terms) ==
  /\ t # ""
  /\ Upper(t) \notin { "NONE", "NO RULES", "NO BEHAVIORAL RULES", "N/A" }
  /\ LineLen(t) >= 20
  /\ TermsIn(t) \cap terms # { }

\* The rules the claim expects of the output out: its rule lines, in order.
RuleLinesOf(out, terms) ==
  LET trimmed == [ i \in DOMAIN out |-> StripLine(out[i]) ]
      Test(t) == IsRuleLine(t, terms)
  IN  SelectSeq(trimmed, Test)

\* C16: when an extraction returns, the rules it extracted are exactly the trimmed
\* lines of the output that are no sentinel, have at least 20 characters and hold
\* a domain keyword, in the order of the output, and the step stores a rule only
\* for such a line.
C16_NeverFabricates ==
  [][ ExtractionReturns
      => /\ last'.task_statements
              = RuleLinesOf(last'.tasks_text,
                            IF last'.kind = "extract_rules" THEN JamieTerms ELSE MainTerms)
         /\ \A s \in Sessions : \A t \in RuleTexts :
              rules'[s][t] # rules[s][t]
                => s = last'.sid /\ t \in Range(last'.task_statements) ]_vars

\* C16 happens: a /submit_interview has extracted and stored two different rules
\* in the order of the output, the first a line that had to be trimmed.
C16_TwoRulesInOrder ==
  /\ last.kind = "submit" /\ last.resp.status = "extracted"
  /\ Len(last.task_statements) = 2
  /\ last.task_statements[1] # last.task_statements[2]
  /\ last.task_statements[1] # last.tasks_text[1]
  /\ last.task_statements[1] = StripLine(last.tasks_text[1])
  /\ rules[last.sid][last.task_statements[1]] = 1
  /\ rules[last.sid][last.task_statements[2]] = 1

\* C17: the rules of one extraction run are pairwise different.
C17_NoDuplicateInRun ==
  \A i, j \in DOMAIN last.task_statements :
    i # j => last.task_statements[i] # last.task_statements[j]

\* C18: when the extraction call of a /submit_interview request fails, the request
\* returns the soft error outcome, and the session's persisted completion flag is
\* true with the transcript the request read.
C18_SoftErrorKeepsCompletion ==
  [][ \A r \in Reqs :
        ( /\ pc[r] = "sub_llm" /\ pc'[r] = "idle" /\ loc[r].kind = "submit"
          /\ Returns /\ last'.resp.status # "extracted" )
        => /\ last'.resp.status = "error"
           /\ db'[last'.sid].is_complete
           /\ db'[last'.sid].conversation_history
                = loc[r].submitted.conversation_history ]_vars

(***************************************************************************)
(* Ingestion of documents.                                                 *)
(***************************************************************************)
\* The step is an upload of the file the upload before it stored.
SameFileAgain ==
  /\ upload'.n # upload.n
  /\ upload.status = "ok"
  /\ upload'.session_id = upload.session_id
  /\ upload'.filename = upload.filename
  /\ upload'.content_chunks = upload.content_chunks

StoredIndexes(s, f) ==
  { c.chunk_index : c \in { d \in chunks : d.session_id = s /\ d.title = f } }

\* C20: the chunk_index values stored for a document are 0..n-1, also after a
\* run that skipped chunks that failed.
C20_IndexesContiguous ==
  \A s \in Sessions, f \in { file.filename : file \in Files } :
    StoredIndexes(s, f) = 0 .. ( Cardinality(StoredIndexes(s, f)) - 1 )

\* The chunks of the file of the upload that are in collection c.
PresentChunks(c, u) ==
  { i \in 1..Len(u.content_chunks) :
      \E d \in c : d.id = chunk_id(u.session_id, u.filename, i - 1, u.content_chunks[i]) }

\* The step is an upload that reached the loop over the chunks.
StoresChunks ==
  /\ upload'.n # upload.n
  /\ upload'.total_chunks > 0

\* C21: an upload that went through its chunks reports success with
\* chunks_processed the number of its chunks that are in the collection
\* (persisted or already present) when there is one, and otherwise fails with
\* an error that made a chunk fail.
C21_PartialIngestion ==
  [][ StoresChunks
      => LET present == Cardinality(PresentChunks(chunks', upload')) IN
         IF present >= 1
         THEN upload'.status = "ok" /\ upload'.chunks_processed = present
         ELSE upload'.status = "500" /\ upload'.error \in upload'.logged ]_vars

(***************************************************************************)
(* Reads of documents.                                                     *)
(***************************************************************************)
\* Request r begins a turn that goes to the completion capability.
BeginsTurn(r) == pc[r] = "idle" /\ pc'[r] = "chat_llm"

\* The chunks stored for document t of session s.
DocumentChunks(s, t) == { c \in chunks : c.session_id = s /\ c.title = t }

\* The entries of a context that are of document t.
EntriesOf(context, t) == { i \in DOMAIN context : context[i].title = t }

StoredTitles == { c.title : c \in chunks }

\* The prompt of every turn that looked the documents up holds for each
\* document at most most entries, and all its chunks if it has at most three.
SamplingBound(most) ==
  \A r \in Reqs :
    ( BeginsTurn(r) /\ loc'[r].lookup = "ok" )
    => \A t \in StoredTitles :
         LET N == Cardinality(DocumentChunks(loc'[r].sid, t))
             entries == EntriesOf(loc'[r].doc_context, t)
         IN  /\ Cardinality(entries) <= most
             /\ N <= 3 => /\ Cardinality(entries) = N
                          /\ { loc'[r].doc_context[i].chunk : i \in entries }
                               = DocumentChunks(loc'[r].sid, t)

\* C22 as amended: for a document of N chunks the context of the /chat prompt
\* holds at most 8 entries of it whatever N is, and all N chunks when N is at
\* most 3.
C22_SamplingBound == [][ SamplingBound(8) ]_vars

\* A turn is in flight whose prompt holds 8 entries of a document, and the
\* document has more than 8 chunks.
C22_LargeDocumentSampled ==
  \E r \in Reqs :
    /\ pc[r] = "chat_llm" /\ loc[r].lookup = "ok"
    /\ Len(loc[r].doc_context) = 8
    /\ Cardinality(DocumentChunks(loc[r].sid, "guide.txt")) > 8

\* C22 as stated: at most 7 entries whatever N is, all N when N is at most 3.
C22_AtMostSeven == [][ SamplingBound(7) ]_vars

\* Request r begins a turn whose document lookup fails.
LookupFails(r) == BeginsTurn(r) /\ loc'[r].lookup # "ok"

\* Request r, whose document lookup failed, gets the reply of the completion
\* capability.
RepliesAfterFailedLookup(r) ==
  /\ pc[r] = "chat_llm" /\ pc'[r] # "chat_llm"
  /\ loc[r].lookup # "ok"
  /\ \E l \in Acting : l.kind = "chat" /\ l.sid = loc[r].sid /\ l.ai_message[1] = "generated"

\* C23: a turn whose document lookup fails (store unreachable or a call that
\* raises) goes on with an empty document context: the completion capability
\* is called, and its reply is appended and the question index incremented as
\* for a session without documents.
C23_LookupNeverFailsTurn ==
  [][ /\ ( Returns /\ last'.kind = "chat" /\ last'.route = "generated" ) => last'.called
      /\ \A r \in Reqs :
           /\ LookupFails(r)
              => /\ loc'[r].doc_context = << >>
                 /\ loc'[r].conversation_history
                      = WithUserTurn(loc'[r].session_data.conversation_history, loc'[r].msg)
                 /\ db' = db
           /\ RepliesAfterFailedLookup(r)
              => \A l \in Acting :
                   /\ l.called
                   /\ l.current_question_index
                        = loc[r].session_data.current_question_index + 1
                   /\ IsPrefix(Append(loc[r].conversation_history,
                                      [ role |-> "assistant", content |-> l.ai_message ]),
                               l.conversation_history)
                   /\ ( l.saved /\ ~l.in_chat )
                        => /\ db'[l.sid].conversation_history = l.conversation_history
                           /\ db'[l.sid].current_question_index = l.current_question_index
    ]_vars

\* A turn on a session that has chunks stored has returned a reply that was
\* stored, after a lookup that failed.
C23_TurnAfterFailedLookup ==
  /\ last.kind = "chat" /\ last.route = "generated"
  /\ last.lookup \in { "unreachable", "get_raises", "processor_raises" }
  /\ last.resp.status = "ok" /\ last.saved
  /\ DocumentChunks(last.sid, "guide.txt") # { }
  /\ db[last.sid].current_question_index = 1

\* C24: after an upload for a session has stored its chunks, a search of that
\* session with limit k over the connected store answers a non-empty list of
\* at most k chunks, all of that session.
C24_SearchFindsChunks ==
  [][ ( /\ Returns /\ last'.kind = "search" /\ last'.lookup = "ok"
        /\ upload.status = "ok" /\ upload.session_id = last'.sid
        /\ DocumentChunks(last'.sid, upload.filename) # { } )
      => /\ last'.doc_context # << >>
         /\ Len(last'.doc_context) <= last'.limit
         /\ \A i \in DOMAIN last'.doc_context : last'.doc_context[i].session_id = last'.sid
    ]_vars

\* The chunks of the entries of a context.
ChunksIn(context) == { context[i].chunk : i \in DOMAIN context }

\* The step is an upload or a deletion for session b.
WritesDocuments(b) ==
  \/ upload'.n # upload.n /\ upload'.session_id = b
  \/ upload' = upload /\ Returns /\ last'.kind = "delete" /\ last'.sid = b

\* What the three reads of documents answer for session a over collection c.
ReadsOf(c, a) ==
  << doc_context(c, a, "ok"), doc_query_content(c, a, "ok"), document_context(c, a, "ok") >>

\* C25: the document context of the /chat prompt, the doc-query reply and the
\* document text passed to the rule extraction for a session hold only chunks
\* stored with that session id, and an upload, re-upload or deletion in
\* another session changes none of them.
C25_ReadsScopedBySession ==
  [][ /\ \A l \in Acting :
           l.kind \in { "chat", "submit" }
           => /\ \A c \in ChunksIn(l.doc_context) \cup ChunksIn(l.document_context) :
                   c.session_id = l.sid /\ c \in chunks
              /\ l.route = "doc_query"
                   => \E lookup \in Lookups :
                        l.doc_context
                          = doc_query_content({ c \in chunks : c.session_id = l.sid },
                                              l.sid, lookup)
              /\ l.route = "generated" /\ ~l.called
                   => l.doc_context
                        = doc_context({ c \in chunks : c.session_id = l.sid }, l.sid, l.lookup)
      /\ \A a, b \in Sessions :
           ( a # b /\ WritesDocuments(b) ) => ReadsOf(chunks', a) = ReadsOf(chunks, a)
    ]_vars

\* After an upload for session 2, whose chunks are stored, a document query of
\* session 1 has answered the sections of the document of session 1.
C25_ReadAfterUploadElsewhere ==
  /\ upload.status = "ok" /\ upload.session_id = 2
  /\ \E c \in chunks : c.session_id = 2
  /\ last.kind = "chat" /\ last.sid = 1 /\ last.route = "doc_query"
  /\ last.doc_context # << >>

\* The sessions the step acts for: that of the upload, or those of the
\* requests that move.
ActingSessions ==
  IF upload'.n # upload.n THEN { upload'.session_id }
  ELSE { l.sid : l \in { k \in Acting : k.kind \in { "chat", "submit", "delete", "search" } } }

\* C26: a /chat, /submit_interview, upload or delete_session_documents for a
\* session leaves the transcript, question index, completion flag, rules and
\* chunks of every other session as they were.
C26_OtherSessionsUntouched ==
  [][ \A b \in Sessions \ ActingSessions :
        /\ db'[b] = db[b]
        /\ rules'[b] = rules[b]
        /\ { c \in chunks' : c.session_id = b } = { c \in chunks : c.session_id = b }
    ]_vars

\* delete_session_documents has answered True for session 1 and the chunks of
\* session 2 are still there.
C26_DeletedNextToOthers ==
  /\ last.kind = "delete" /\ last.sid = 1 /\ last.saved
  /\ chunks # { }
  /\ \A c \in chunks : c.session_id = 2
  /\ db[2] = StartedRow(0)

(***************************************************************************)
(* Session ids.                                                            *)
(***************************************************************************)
\* C27: the id start_interview_with_expert returns is the id of no session in
\* the store, and the rows of the sessions in the store are left as they were,
\* also after a restart.
C27_FreshSessionIds ==
  [][ ( Returns /\ last'.kind = "start" /\ session_counter' = session_counter + 1 )
      => /\ ~db[last'.sid].exists
         /\ \A s \in Sessions : db[s].exists => db'[s] = db[s]
    ]_vars

(***************************************************************************)
(* C28: the edge cases of the chunker.                                     *)
(***************************************************************************)
\* The buffer the chunker holds when its loop over the sentences ends.
TrailingBuffer(text) == split_loop(split(text), << >>, << >>).current_chunk

\* C28: the chunker returns no passage for an empty or whitespace-only text, and
\* for any other text its last passage is the trailing buffer, whatever its size.
C28_ChunkerEdgeCases ==
  last.kind = "split"
    => /\ strip(last.text) = << >> => last.text_chunks = << >>
       /\ strip(last.text) # << >>
            => /\ last.text_chunks # << >>
               /\ last.text_chunks[Len(last.text_chunks)]
                    = strip(TrailingBuffer(last.text))

\* C28, the second half alone: a text with more than white space has its trailing
\* buffer as the last passage.
C28_TrailingBufferFlushed ==
  last.kind = "split" /\ strip(last.text) # << >>
    => /\ last.text_chunks # << >>
       /\ last.text_chunks[Len(last.text_chunks)] = strip(TrailingBuffer(last.text))

\* C28 through the TXT extractor: a text of white space alone gives no chunk.
C28_ExtractorSkipsBlankText ==
  last.kind = "extract_txt" /\ strip(last.text) = << >> => last.text_chunks = << >>

(***************************************************************************)
(* C29: the retries of the bulk read of all rules.                         *)
(***************************************************************************)
\* The attempts of call l before its last were failures.
FailedBeforeLast(l) == \A i \in 1..(Len(l.outcomes) - 1) : l.outcomes[i] = "raised"

\* A call of get_all_rules that is under way has made at most two attempts, all
\* failures, and has slept one pause after each but the one it sleeps after now.
RulesCallUnderWay(r) ==
  LET l == loc[r] IN
  /\ l.attempt < MaxAttempts
  /\ \A i \in DOMAIN l.outcomes : l.outcomes[i] = "raised"
  /\ l.slept = RetryPause * l.attempt
  /\ Len(l.outcomes) = IF pc[r] = "rules_sleep" THEN l.attempt + 1 ELSE l.attempt

\* A call of get_all_rules that has returned made at most three attempts with
\* one pause between two of them, returned the rules of the first attempt that
\* succeeded, and returned the empty list after three failures.
RulesCallReturned(l) ==
  LET n == Len(l.outcomes) IN
  /\ n \in 1..MaxAttempts
  /\ FailedBeforeLast(l)
  /\ l.slept = RetryPause * (n - 1)
  /\ l.outcomes[n] = "ok"
       => l.all_rules = Attempt(l.rules_collection, l.limit, "ok").rules
  /\ l.outcomes[n] = "raised" => n = MaxAttempts /\ l.all_rules = << >>

\* The attempts, pauses and results of the calls of get_all_rules are those of
\* at most three attempts.
BoundedRetry ==
  /\ \A r \in Reqs : pc[r] \in { "rules_find", "rules_sleep" } => RulesCallUnderWay(r)
  /\ last.kind = "get_all_rules" => RulesCallReturned(last)

\* C29 is reached: a call over a collection that holds rules fails three times,
\* sleeps twice and returns the empty list.
C29_EmptyAfterThreeFailures ==
  /\ last.kind = "get_all_rules"
  /\ last.outcomes = << "raised", "raised", "raised" >>
  /\ last.slept = 2 * RetryPause
  /\ last.all_rules = << >>
  /\ last.rules_collection.connected
  /\ Attempt(last.rules_collection, last.limit, "ok").rules # << >>

\* C29 is reached: a call returns the rules of its second attempt.
C29_SecondAttemptSucceeds ==
  /\ last.kind = "get_all_rules"
  /\ last.outcomes = << "raised", "ok" >>
  /\ last.all_rules # << >>

\* Every call of get_all_rules returns.
EveryCallReturns ==
  \A r \in Reqs : (pc[r] \in { "rules_find", "rules_sleep" }) ~> (pc[r] = "idle")

\* C29: the bulk read of all rules makes at most three attempts with a pause of
\* one second between attempts, returns the result of the first attempt that
\* succeeds, and after three failures in a row returns the empty list: it
\* neither raises nor retries for ever, so every call returns.
C29_BoundedRetry == []BoundedRetry /\ EveryCallReturns

(***************************************************************************)
(* C30: requests that fail validation change nothing.                      *)
(***************************************************************************)
\* The step is an upload of a file of another type or over the size ceiling.
InvalidUpload ==
  /\ upload'.n # upload.n
  /\ \/ ~AllowedExtension(upload'.filename)
     \/ upload'.size > MaxFileMB

\* The step begins a /chat or /submit_interview request for a session the store
\* does not hold.
BeginsForMissingSession ==
  /\ issued' # issued
  /\ upload' = upload
  /\ \E l \in Acting : l.kind \in { "chat", "submit" } /\ ~db[l.sid].exists

\* The step leaves the sessions, the rules, the counter and the chunks as they were.
NothingStored ==
  /\ db' = db
  /\ rules' = rules
  /\ session_counter' = session_counter
  /\ chunks' = chunks

\* C30: an upload of an unsupported type or over the size ceiling is answered with
\* an error and stores no chunk, and a /chat or /submit_interview request for a
\* session that does not exist returns 404 at once: it creates no session,
\* appends no turn, does not call the completion capability and saves no rule.
C30_ValidationRejected ==
  [][ /\ InvalidUpload
        => /\ upload'.status \in { "400", "503" }
           /\ upload'.chunks_processed = 0
           /\ NothingStored
      /\ BeginsForMissingSession
        => /\ Returns
           /\ last'.resp.status = "404"
           /\ ~last'.called
           /\ NothingStored
           /\ pc' = pc
    ]_vars

\* C30 is reached: an upload was rejected with 400 and then a /chat for a session
\* the store does not hold has returned 404.
C30_RejectedUploadAndChat ==
  /\ upload.status = "400"
  /\ last.kind = "chat" /\ last.resp.status = "404"
  /\ ~db[last.sid].exists
  /\ upload.n = 1

\* C30 is reached: a file over the size ceiling was rejected after a /submit_interview
\* for a missing session returned 404.
C30_RejectedSubmitAndLargeFile ==
  /\ last.kind = "submit" /\ last.resp.status = "404"
  /\ upload.status = "400" /\ upload.size > MaxFileMB
  /\ upload.n = 2

(***************************************************************************)
(* C31: the passages of the chunker partition the sentences in order.      *)
(***************************************************************************)
\* The sentences of a passage: the passage ends with the "." that strip leaves
\* of the closing delimiter, and the delimiters before it part its sentences.
PassageUnits(p) == split(SubSeq(p, 1, Len(p) - 1))

RECURSIVE Flatten(_)
Flatten(ss) == IF ss = << >> THEN << >> ELSE Head(ss) \o Flatten(Tail(ss))

RECURSIVE UnitsBefore(_, _)
UnitsBefore(groups, i) ==
  IF i <= 1 THEN 0 ELSE Len(groups[i - 1]) + UnitsBefore(groups, i - 1)

\* The places in the sequence of sentences at which a passage starts.
PassageStarts(groups) == { UnitsBefore(groups, i) + 1 : i \in DOMAIN groups }

\* The buffer as it is before sentence k: the sentences from the start of the
\* passage under way, each with its delimiter.
RECURSIVE Joined(_, _, _)
Joined(units, from, to) ==
  IF from > to THEN << >>
  ELSE units[from] \o << Delimiter >> \o Joined(units, from + 1, to)

BufferBefore(units, starts, k) ==
  LET from == CHOOSE g \in starts : g < k /\ \A h \in starts : h < k => h <= g
  IN  Joined(units, from, k - 1)

\* The passages hold the sentences of the text, each once and in order; a
\* passage has lost only the white space strip takes from its front.
SentencesPartitioned(text, text_chunks) ==
  LET units == split(text)
      groups == [ i \in DOMAIN text_chunks |-> PassageUnits(text_chunks[i]) ]
      flat == Flatten(groups)
      starts == PassageStarts(groups)
  IN  /\ Len(flat) = Len(units)
      /\ \A i \in DOMAIN groups : groups[i] # << >>
      /\ \A k \in DOMAIN units :
           flat[k] = IF k \in starts THEN lstrip(units[k]) ELSE units[k]

\* A passage starts at a sentence after the first exactly when the buffer with
\* that sentence is estimated over chunk_size.
FlushedOnOverflow(text, text_chunks) ==
  LET units == split(text)
      groups == [ i \in DOMAIN text_chunks |-> PassageUnits(text_chunks[i]) ]
      starts == PassageStarts(groups)
  IN  /\ 1 \in starts
      /\ \A k \in 2..Len(units) :
           k \in starts
             <=> len(BufferBefore(units, starts, k) \o units[k]) \div 4 > chunk_size

\* C31: the passages of the chunker hold the sentences of the text in order, none
\* dropped, repeated or moved, and a new passage starts at a sentence exactly when
\* the buffer is not empty and len(buffer + sentence) // 4 exceeds chunk_size.
C31_GreedyPartition ==
  last.kind = "split"
    => /\ SentencesPartitioned(last.text, last.text_chunks)
       /\ FlushedOnOverflow(last.text, last.text_chunks)

\* C31 is reached: a text of three sentences was cut into two passages, the
\* first of two sentences.
C31_FlushedAfterTwoSentences ==
  /\ last.kind = "split"
  /\ Len(split(last.text)) = 3
  /\ Len(last.text_chunks) = 2
  /\ Len(PassageUnits(last.text_chunks[1])) = 2

(***************************************************************************)
(* C32: the size of a passage.                                             *)
(***************************************************************************)
\* The estimate the chunker uses, of a passage: its characters over four.
EstimatedTokens(p) == len(p) \div 4

\* C32: a passage of more than one sentence is estimated at chunk_size tokens at
\* most; only a passage that is one sentence may be over.
C32_ChunkSizeBound ==
  last.kind = "split"
    => \A i \in DOMAIN last.text_chunks :
         Len(PassageUnits(last.text_chunks[i])) > 1
           => EstimatedTokens(last.text_chunks[i]) <= chunk_size

\* C32 with the delimiter the chunker appends after its test: a passage of more
\* than one sentence is estimated at chunk_size + 1 tokens at most.
C32_BoundWithDelimiter ==
  last.kind = "split"
    => \A i \in DOMAIN last.text_chunks :
         Len(PassageUnits(last.text_chunks[i])) > 1
           => EstimatedTokens(last.text_chunks[i]) <= chunk_size + 1

(***************************************************************************)
(* C33: the stored question index and the ceiling.                         *)
(***************************************************************************)
\* C33: the question index stored for a session never exceeds the ceiling of 23,
\* whatever the order in which /chat requests for the session read and write it.
C33_IndexWithinCeiling ==
  \A s \in Sessions : db[s].current_question_index <= QuestionCeiling

(***************************************************************************)
(* C34: the sample of a document holds no chunk twice.                     *)
(***************************************************************************)
\* The entries of each document of session s in a context: no chunk twice, no
\* more entries than the document has chunks, its first and last chunk among them.
SampledOnce(context, s) ==
  \A t \in StoredTitles :
    LET document == DocumentChunks(s, t)
        entries == EntriesOf(context, t)
        sampled == { context[i].chunk : i \in entries }
    IN  /\ \A i, j \in entries : i # j => context[i].chunk # context[j].chunk
        /\ Cardinality(entries) <= Cardinality(document)
        /\ \A c \in document :
             ( \/ \A d \in document : c.chunk_index <= d.chunk_index
               \/ \A d \in document : c.chunk_index >= d.chunk_index )
             => c \in sampled

\* The step answers a document query with the sections of the documents.
AnswersDocQuery ==
  /\ Returns
  /\ upload' = upload
  /\ last'.kind = "chat" /\ last'.route = "doc_query" /\ last'.doc_context # << >>

\* C34: the sample of a document of N chunks, in the prompt of a turn and in the
\* reply to a document query, holds each chunk at most once, has at most N
\* entries and holds the first and the last chunk of the document.
C34_SampleWithoutRepeats ==
  [][ /\ \A r \in Reqs :
           ( BeginsTurn(r) /\ loc'[r].lookup = "ok" )
             => SampledOnce(loc'[r].doc_context, loc'[r].sid)
      /\ AnswersDocQuery => SampledOnce(last'.doc_context, last'.sid)
    ]_vars

\* C34, the part that holds: the first and the last chunk of every document of
\* the session are in the sample.
C34_FirstAndLastSampled ==
  [][ \A r \in Reqs :
        ( BeginsTurn(r) /\ loc'[r].lookup = "ok" )
          => \A t \in StoredTitles : \A c \in DocumentChunks(loc'[r].sid, t) :
               ( \/ \A d \in DocumentChunks(loc'[r].sid, t) : c.chunk_index <= d.chunk_index
                 \/ \A d \in DocumentChunks(loc'[r].sid, t) : c.chunk_index >= d.chunk_index )
               => \E i \in DOMAIN loc'[r].doc_context : loc'[r].doc_context[i].chunk = c
    ]_vars

(***************************************************************************)
(* C35: a document query is a turn of its own.                             *)
(***************************************************************************)
\* What a document query does but for the transcript: it returns in the step
\* that begins it, without a call of the completion capability, leaves the
\* stored index and flag as they were and does not report the interview complete.
DocQueryAside(l) ==
  /\ Returns
  /\ ~l.called
  /\ db'[l.sid].current_question_index = db[l.sid].current_question_index
  /\ db'[l.sid].is_complete = db[l.sid].is_complete
  /\ ~l.resp.is_complete /\ ~l.resp.auto_submitted
  /\ rules' = rules

\* The stored transcript has gained the expert's message and one reply.
DocQueryAppended(l) ==
  LET before == db[l.sid].conversation_history
      after == db'[l.sid].conversation_history
  IN  /\ Len(after) = Len(before) + 2
      /\ SubSeq(after, 1, Len(before)) = before
      /\ after[Len(before) + 1] = UserTurn(l.msg)
      /\ after[Len(before) + 2].role = "assistant"
      /\ after[Len(before) + 2].content[1] = "doc_reply"

\* C35: a /chat message with a document-query phrase, whatever else it matches
\* and at any question index, appends the expert's message and one reply to the
\* stored transcript, calls the completion capability not at all and leaves the
\* stored index and flag as they were.
C35_DocQueryTurn ==
  [][ \A l \in Acting :
        ( l.kind = "chat" /\ is_doc_query(l.msg) /\ l.route \notin { "not_found", "completed" } )
        => /\ l.route = "doc_query"
           /\ DocQueryAside(l)
           /\ DocQueryAppended(l) ]_vars

\* C35 but for the write that fails: the transcript gains the two turns when the
\* store answers the write.
C35_DocQueryTurnWhenStored ==
  [][ \A l \in Acting :
        ( l.kind = "chat" /\ is_doc_query(l.msg) /\ l.route \notin { "not_found", "completed" } )
        => /\ l.route = "doc_query"
           /\ DocQueryAside(l)
           /\ l.saved => DocQueryAppended(l) ]_vars

\* A document query was answered and stored for a session past index 0.
C35_DocQueryAtLaterIndex ==
  /\ last.kind = "chat" /\ last.route = "doc_query" /\ last.saved
  /\ last.session_data.current_question_index > 0

(***************************************************************************)
(* C36: what auto_submitted reports.                                       *)
(***************************************************************************)
\* The extraction call of request l was answered (the outputs the handlers are
\* run with have one line at least).
ExtractionAnswered(l) == l.called /\ l.tasks_text # << >>

\* The step saved every task of l as a rule of its session.
EveryTaskSaved(l) ==
  rules' = SaveTasks(rules, l.sid, l.task_statements,
                     [ i \in 1..Len(l.task_statements) |-> TRUE ])

\* C36: a /chat response that reports auto_submitted = true is one of a request
\* whose rule extraction succeeded: the extraction call was answered and every
\* rule saved; when either failed inside the automatic submit the response
\* reports auto_submitted = false.
C36_AutoSubmittedMeansExtracted ==
  [][ \A l \in Acting :
        ( Returns /\ upload' = upload /\ l.kind = "chat" /\ l.in_chat
          /\ l.resp.auto_submitted )
        => /\ ExtractionAnswered(l)
           /\ EveryTaskSaved(l) ]_vars

\* A /chat request whose extraction call raised inside the automatic submit has
\* returned with auto_submitted = true.
C36_ReportedAfterFailedExtraction ==
  /\ last.kind = "chat" /\ last.in_chat /\ last.called
  /\ last.tasks_text = << >>
  /\ last.resp.auto_submitted

(***************************************************************************)
(* C37: one chunk for each chunk_index of a document.                      *)
(***************************************************************************)
\* C37: no two chunks stored for a session have the same title and chunk_index,
\* also after a file was uploaded again under its name with other content.
C37_ChunkIndexUnique ==
  \A c, d \in chunks :
    ( c.session_id = d.session_id /\ c.title = d.title /\ c.chunk_index = d.chunk_index )
      => c = d

\* What the ids give: one chunk stored for each id.
C37_ChunkIdUnique ==
  \A c, d \in chunks : c.id = d.id => c = d

=============================================================================
